---- MODULE Spec2Model ----
(***************************************************************************)
(* OpenMiniCrew: the dispatch-and-routing pipeline.                        *)
(*                                                                         *)
(*   core/providers/registry.py   ProviderRegistry (get_fallback, ...)     *)
(*   core/llm.py                  LLMRouter.chat with provider fallback    *)
(*   tools/registry.py            ToolRegistry                             *)
(*   core/memory.py, core/db.py   chat_history, tool_logs, users           *)
(*   dispatcher.py                dispatch / process_message               *)
(*   interfaces/telegram_*.py     transports, parse_command                *)
(*                                                                         *)
(* A text is a sequence of one-character strings (user input) or of        *)
(* opaque string tokens (text produced by the program or by a provider).   *)
(* An exception is the string str(e) would give.  None is "None".          *)
(***************************************************************************)
EXTENDS Integers, Sequences, FiniteSets, TLC

\* ------------------------------------------------------------------ bounds
\* largest token count one provider call reports
MaxTok == 1

\* the process_message activations that can be in flight together
Turns == {1, 2}
\* the token counts a result reports: none, or the largest count
TokenVals == {0, MaxTok}

None == "None"

\* ------------------------------------------------------------- str helpers
WS == {" ", "\n", "\t"}

UpperChars == <<"A","B","C","D","E","F","G","H","I","J","K","L","M",
                "N","O","P","Q","R","S","T","U","V","W","X","Y","Z">>
LowerChars == <<"a","b","c","d","e","f","g","h","i","j","k","l","m",
                "n","o","p","q","r","s","t","u","v","w","x","y","z">>

\* str.lower() on one character
LowerChar(c) ==
    IF \E i \in 1..26 : UpperChars[i] = c
    THEN LowerChars[CHOOSE i \in 1..26 : UpperChars[i] = c]
    ELSE c

\* str.lower()
Lower(s) == [i \in 1..Len(s) |-> LowerChar(s[i])]

\* str.lstrip()
LStrip(s) ==
    IF \A i \in 1..Len(s) : s[i] \in WS THEN <<>>
    ELSE SubSeq(s, CHOOSE i \in 1..Len(s) :
                       s[i] \notin WS /\ \A j \in 1..(i-1) : s[j] \in WS,
                Len(s))

\* str.rstrip()
RStrip(s) ==
    IF \A i \in 1..Len(s) : s[i] \in WS THEN <<>>
    ELSE SubSeq(s, 1, CHOOSE i \in 1..Len(s) :
                       s[i] \notin WS /\ \A j \in (i+1)..Len(s) : s[j] \in WS)

\* str.strip()
Strip(s) == RStrip(LStrip(s))

\* s.split(None, 1)[0] of a stripped, non-empty s: the first token
FirstToken(s) ==
    IF \E i \in 1..Len(s) : s[i] \in WS
    THEN SubSeq(s, 1, (CHOOSE i \in 1..Len(s) :
                          s[i] \in WS /\ \A j \in 1..(i-1) : s[j] \notin WS) - 1)
    ELSE s

\* s.split(None, 1)[1] if present, else "" (dispatcher: parts[1] if len(parts) > 1)
RestAfterFirstToken(s) ==
    LStrip(SubSeq(s, Len(FirstToken(s)) + 1, Len(s)))

\* tok.split("@")[0]
BeforeAt(tok) ==
    IF \E i \in 1..Len(tok) : tok[i] = "@"
    THEN SubSeq(tok, 1, (CHOOSE i \in 1..Len(tok) :
                            tok[i] = "@" /\ \A j \in 1..(i-1) : tok[j] # "@") - 1)
    ELSE tok

\* the '@suffix' stays on the command
parse_command_KeepSuffix(text) ==
    LET t == Strip(text) IN
    IF Len(t) > 0 /\ t[1] = "/"
    THEN <<Lower(FirstToken(t)), RestAfterFirstToken(t)>>
    ELSE <<<<>>, t>>

\* interfaces/telegram_common.py parse_command: <<command, args>>
parse_command(text) ==
    LET t == Strip(text) IN
    IF Len(t) > 0 /\ t[1] = "/"
    THEN <<Lower(BeforeAt(FirstToken(t))), RestAfterFirstToken(t)>>
    ELSE <<<<>>, t>>

\* ----------------------------------------------------- program vocabulary
\* command strings and inbound texts, spelled out as characters
CmdHelp    == <<"/","h","e","l","p">>
CmdModel   == <<"/","m","o","d","e","l">>
CmdAddUser == <<"/","a","d","d","u","s","e","r">>
CmdRemoveUser == <<"/","r","e","m","o","v","e","u","s","e","r">>
CmdListUsers == <<"/","l","i","s","t","u","s","e","r","s">>
CmdAuthGmail == <<"/","a","u","t","h","g","m","a","i","l">>
CmdEmail   == <<"/","e","m","a","i","l">>
CmdTraffic == <<"/","t","r","a","f","f","i","c">>
CmdRoute   == <<"/","r","o","u","t","e">>
CmdNotes   == <<"/","n","o","t","e","s">>

\* messages a user can send in this model
TextHi       == <<"h","i">>
TextHelp     == <<"/","H","e","l","p","@","b">>
TextTraffic  == <<"/","t","r","a","f","f","i","c"," ","x">>
TextUnknownCmd == <<"/","f","o","o">>
TextModel    == <<"/","m","o","d","e","l"," ","G","e","m","i","n","i">>
TextAddUser  == <<"/","a","d","d","u","s","e","r"," ","3">>
TextRemoveUser == <<"/","r","e","m","o","v","e","u","s","e","r"," ","2">>
TextListUsers == <<"/","l","i","s","t","u","s","e","r","s">>
TextModelOther == <<"/","m","o","d","e","l"," ","g","e","m","i","n","i","x">>
TextAddUserBare == <<"/","a","d","d","u","s","e","r">>
TextAddUserTwo == <<"/","a","d","d","u","s","e","r"," ","2">>
TextRemoveOwner == <<"/","r","e","m","o","v","e","u","s","e","r"," ","1">>

\* what arrives while turns are handled one at a time
InboundTexts == {TextHi, TextHelp, TextTraffic, TextUnknownCmd, TextModel,
                 TextAddUser, TextRemoveUser, TextListUsers, TextModelOther,
                 TextAddUserBare, TextAddUserTwo, TextRemoveOwner}
\* what arrives while turns overlap
OverlapTexts == {TextHi, TextRemoveUser}

RECURSIVE Join(_)
\* "".join(chars): the Python str a sequence of characters spells
Join(chars) == IF chars = <<>> THEN "" ELSE Head(chars) \o Join(Tail(chars))

\* ------------------------------------------------------ provider registry
\* provider classes in the order discover() meets them (pkgutil.iter_modules
\* lists core/providers/ alphabetically; a provider is added by adding a file)
ProviderClasses == <<"claude", "gemini", "ollama">>

\* ProviderRegistry._register on the ordered key list of self.providers
RegisterProvider(provs, name) ==
    IF name = "" THEN provs
    ELSE IF \E i \in 1..Len(provs) : provs[i] = name THEN provs
    ELSE Append(provs, name)

RECURSIVE DiscoverProviders(_, _)
\* ProviderRegistry.discover: register every class found, in order
DiscoverProviders(classes, provs) ==
    IF classes = <<>> THEN provs
    ELSE DiscoverProviders(Tail(classes), RegisterProvider(provs, Head(classes)))

\* provider_registry.providers (keys, in insertion order) after LLMRouter.__init__
providers == DiscoverProviders(ProviderClasses, <<>>)

ProviderNames == {providers[i] : i \in 1..Len(providers)}

\* names a caller may pass as preferred provider: the registered ones and one
\* that is not registered
PreferredNames == ProviderNames \cup {"geminix"}

\* provider.get_model("cheap")
get_model(p) ==
    CASE p = "claude" -> "claude-haiku"
      [] p = "gemini" -> "gemini-flash"
      [] OTHER -> "ollama-small"

\* first element of seq satisfying the set-membership test, or None
FirstIn(seq, S) ==
    IF \E i \in 1..Len(seq) : seq[i] \in S
    THEN seq[CHOOSE i \in 1..Len(seq) : seq[i] \in S /\ \A j \in 1..(i-1) : seq[j] \notin S]
    ELSE None

\* ---------------------------------------------------------- tool registry
\* tool classes in discovery order; direct_output is "undeclared" for a class
\* that, like BaseTool, has no such attribute
\* description is the class attribute; schema lists the properties of the
\* parameters object get_tool_spec returns (none when the class declares none)
ToolClasses == <<
    [name |-> "email_summary", commands |-> <<CmdEmail>>, direct_output |-> "undeclared",
     description |-> "summarize unread mail", schema |-> <<"time_range">>],
    [name |-> "notes", commands |-> <<CmdNotes>>, direct_output |-> "False",
     description |-> "keep notes", schema |-> <<>>],
    [name |-> "traffic", commands |-> <<CmdTraffic, CmdRoute>>, direct_output |-> "True",
     description |-> "check a route", schema |-> <<"origin", "destination">>] >>

EmptyRegistry == [tools |-> <<>>, command_map |-> <<>>]

\* what a lookup gives when there is no such tool (Python None)
NoTool == [name |-> None, commands |-> <<>>, direct_output |-> "undeclared",
           description |-> "", schema |-> <<>>]

\* ToolRegistry._register: self.tools[name] = tool; command_map[cmd] = tool
RegisterTool(reg, tool) ==
    IF tool.name = "" THEN reg
    ELSE LET idx == {i \in 1..Len(reg.tools) : reg.tools[i].name = tool.name}
             newTools == IF idx = {} THEN Append(reg.tools, tool)
                         ELSE [i \in 1..Len(reg.tools) |->
                                 IF i \in idx THEN tool ELSE reg.tools[i]]
             kept == SelectSeq(reg.command_map,
                        LAMBDA e : \A k \in 1..Len(tool.commands) : tool.commands[k] # e[1])
             added == [k \in 1..Len(tool.commands) |-> <<tool.commands[k], tool>>]
         IN [tools |-> newTools, command_map |-> kept \o added]

RECURSIVE DiscoverTools(_, _)
\* ToolRegistry.discover
DiscoverTools(classes, reg) ==
    IF classes = <<>> THEN reg
    ELSE DiscoverTools(Tail(classes), RegisterTool(reg, Head(classes)))

\* the singleton registry after registry.discover()
registry == DiscoverTools(ToolClasses, EmptyRegistry)

ToolNames == {registry.tools[i].name : i \in 1..Len(registry.tools)}

\* ToolRegistry.get_tool on registry r: self.tools.get(name)
ToolRegistry_get_tool(r, name) ==
    IF \E i \in 1..Len(r.tools) : r.tools[i].name = name
    THEN r.tools[CHOOSE i \in 1..Len(r.tools) : r.tools[i].name = name]
    ELSE NoTool

\* ToolRegistry.get_by_command on registry r: self.command_map.get(command)
ToolRegistry_get_by_command(r, command) ==
    IF \E i \in 1..Len(r.command_map) : r.command_map[i][1] = command
    THEN r.command_map[CHOOSE i \in 1..Len(r.command_map) :
                           r.command_map[i][1] = command][2]
    ELSE NoTool

\* BaseTool.get_tool_spec (and the tools' overrides of it)
get_tool_spec(tool) ==
    [name |-> tool.name, description |-> tool.description,
     parameters |-> [type |-> "object", properties |-> tool.schema, required |-> <<>>]]

\* one spec per entry of command_map instead of one per tool
ToolRegistry_get_all_specs_PerCommand(r) ==
    [i \in 1..Len(r.command_map) |-> get_tool_spec(r.command_map[i][2])]

\* ToolRegistry.get_all_specs on registry r
ToolRegistry_get_all_specs(r) ==
    [i \in 1..Len(r.tools) |-> get_tool_spec(r.tools[i])]

\* registry.get_tool: the tool object or None
get_tool(name) == ToolRegistry_get_tool(registry, name)

\* registry.get_by_command: the tool object or None
get_by_command(command) == ToolRegistry_get_by_command(registry, command)

\* registry.get_all_specs: one BaseTool.get_tool_spec() per tool
get_all_specs == ToolRegistry_get_all_specs(registry)

\* ToolRegistry.get_help_text
get_help_text ==
    <<"help-header">>
    \o (IF get_tool("email_summary") # NoTool THEN <<"/email">> ELSE <<>>)
    \o [i \in 1..Len(SelectSeq(registry.tools, LAMBDA t : t.name # "email_summary")) |->
           SelectSeq(registry.tools, LAMBDA t : t.name # "email_summary")[i].name]
    \o <<"/model", "/help">>

\* ------------------------------------------------------------ exceptions
\* str(e) of the exceptions a provider's chat can raise
ProviderErrors == {"401 unauthorized", "invalid request"}
\* str(e) of the exception a capability's execute can raise
ToolErrors == {"tool boom"}
\* ValueError raised by LLMRouter.chat when get_fallback returns None (llm.py:38)
ErrNoProvider == "no LLM provider available"
\* ValueError raised by LLMRouter.chat when no fallback exists (llm.py:66)
ErrNoFallback == "API key wrong and no other provider"
\* AttributeError of reading an attribute the object does not have
ErrAttribute == "object has no attribute direct_output"
ConfigErrors == {ErrNoProvider, ErrNoFallback}

\* the marker substrings that str(e).lower() contains
Words(e) ==
    CASE e = "401 unauthorized" -> {"401", "unauthorized"}
      [] e = "invalid request" -> {"invalid"}
      [] e = ErrNoFallback -> {"api"}
      [] OTHER -> {}

\* the flag of p is set and the flags of the others are cleared
MarkAuthFailed_Only(failed, p) == {p}

\* llm.py 57: p._auth_failed = True, on the set of the providers marked
MarkAuthFailed(failed, p) == failed \cup {p}

\* every error is taken for an authentication error
is_auth_error_Always(e) == e \in {e}

\* LLMRouter.chat: is_auth_error
is_auth_error(e) ==
    \/ "authentication" \in Words(e)
    \/ "401" \in Words(e)
    \/ ("invalid" \in Words(e) /\ "api" \in Words(e))
    \/ "unauthorized" \in Words(e)

\* ------------------------------------------------------------------ state
Digits == <<"0","1","2","3","4","5","6","7","8","9">>

\* the uniform result a provider's chat returns
NoResp == [content |-> <<>>, tool_call |-> None, model |-> None, token_used |-> 0]

\* names the model can put in a tool call: the registered ones and one that
\* is not registered
ToolCallNames == ToolNames \cup {"ghost_tool"}

\* results provider p can return; the text differs with the token count so
\* that two results of one turn can be told apart
LLMResults(p) ==
    {[content |-> <<"answer", Digits[k + 1]>>, tool_call |-> tc,
      model |-> get_model(p), token_used |-> k] :
        k \in TokenVals, tc \in ToolCallNames \cup {None}}

\* what a capability's execute can return
ToolOutputs == {<<"raw-output">>}

\* core/config.py OWNER_TELEGRAM_CHAT_ID (user_id = chat id, as a str)
OwnerId == "1"
\* chat ids that send messages
UserIds == {OwnerId, "2"}
\* a schedules.user_id with no row in users (the foreign key is not enforced)
GhostUserId == "3"
NoUser == [role |-> None, default_llm |-> None]
NoReply == [text |-> <<>>, tool_used |-> None, llm_model |-> None, token_used |-> 0]

\* what the last llm_router.chat of a turn did (bookkeeping for the properties)
NoCall == [resolved |-> None, authFail |-> FALSE, eligible |-> <<>>,
           attempts |-> <<>>, outcome |-> None, err |-> None, result |-> NoResp,
           perr |-> None]

\* locals of one process_message / dispatch activation
InitLocals ==
    [user_id |-> None, user |-> NoUser, text |-> <<>>, provider |-> None,
     context |-> <<>>, call |-> 0, msgs |-> <<>>, p |-> None, other |-> None,
     resp |-> NoResp, tool |-> None, tool_result |-> <<>>, reply |-> NoReply,
     exc |-> None, typing |-> "off",
     \* bookkeeping
     llmCalls |-> 0, execs |-> <<>>, reported |-> 0, msgs1 |-> <<>>,
     msgs2 |-> <<>>, summary |-> NoResp, last |-> NoCall, route |-> None,
     returned |-> FALSE, logged |-> 0, raised |-> None, args |-> <<>>,
     command |-> <<>>]

VARIABLES
    mode,          \* BOT_MODE: "polling" | "webhook"
    configured,    \* providers whose is_configured() is true
    authFailed,    \* providers whose _auth_failed attribute is True
    users,         \* table users: user_id -> row
    chat_history,  \* table chat_history, in created_at order
    tool_logs,     \* table tool_logs
    pc,            \* where each turn is
    loc,           \* locals of each turn
    schedules,     \* table schedules, in id order
    jobs,          \* the jobs added to the APScheduler instance
    boot,          \* init_scheduler: its state and what it loaded
    run,           \* the job activation that runs, or ran last
    outbox,        \* what send_message delivered from a job, in order
    fired,         \* how many job activations have started
    last_run_info, \* scheduler._last_run_info["last_run"]
    toolReg,       \* a ToolRegistry that _register is called on
    exported,      \* what get_all_specs returned since the last _register
    provReg,       \* a ProviderRegistry's providers that _register is called on
    answer,        \* the last get_fallback call on it and what it returned
    input,         \* a text handed to parse_command
    output,        \* what parse_command returned for it
    typer,         \* where each turn's TypingIndicator thread is
    oauth_states,  \* table oauth_states: state -> row
    clock,         \* the time, in ticks
    caller,        \* where each get_oauth_state call is
    issued,        \* history: the tick each saved state expires at
    handed         \* history: the records get_oauth_state returned, in order

\* the state of the scheduler, and the state only the turns touch
schedVars == <<schedules, jobs, boot, run, outbox, fired, last_run_info>>
turnVars == <<mode, configured, authFailed, chat_history, pc, loc>>

\* the state of the components exercised on their own
oauthVars == <<oauth_states, clock, caller, issued, handed>>
unitVars == <<toolReg, exported, provReg, answer, input, output, typer, oauthVars>>

\* no get_fallback call yet, no parse_command call yet, no indicator thread
NoAnswer == [asked |-> FALSE, preferred |-> None, got |-> None]
NoParse == [called |-> FALSE, command |-> <<>>, args |-> <<>>]
TyperOff == [at |-> "off", late |-> 0]

\* the callers of get_oauth_state, and a call that has not started
Callers == {1, 2}
NoRow == [user_id |-> None, chat_id |-> None, expires_at |-> <<>>]
CallerIdle == [pc |-> "idle", state |-> None, row |-> NoRow, at |-> 0]

vars == <<mode, configured, authFailed, users, chat_history, tool_logs, pc, loc,
          schedVars, unitVars>>

\* ------------------------------------------------------- provider registry
\* ProviderRegistry.get_available
get_available == SelectSeq(providers, LAMBDA n : n \in configured)

\* the preferred name is ignored: always the first configured provider
ProviderRegistry_get_fallback_FirstOnly(ps, conf, preferred) == FirstIn(ps, conf)

\* ProviderRegistry.get_fallback on the providers ps (names in insertion
\* order), conf those whose is_configured() is true: a name or None
ProviderRegistry_get_fallback(ps, conf, preferred) ==
    IF (\E i \in 1..Len(ps) : ps[i] = preferred) /\ preferred \in conf
    THEN preferred
    ELSE FirstIn(ps, conf)

\* provider_registry.get_fallback(preferred): a provider name or None
get_fallback(preferred) == ProviderRegistry_get_fallback(providers, configured, preferred)

\* ---------------------------------------------------------------- storage
\* core/config.py MAX_CONTEXT_MESSAGES
MAX_CONTEXT_MESSAGES == 10

\* core/config.py DEFAULT_LLM
DEFAULT_LLM == "claude"

\* db.get_user_by_chat_id: the active row with that chat id, or NoUser
get_user_by_chat_id_AnyRow(chat_id) ==
    IF chat_id \in DOMAIN users
    THEN [role |-> users[chat_id].role, default_llm |-> users[chat_id].default_llm]
    ELSE NoUser

\* db.get_user_by_chat_id: SELECT ... WHERE telegram_chat_id = ? AND is_active = 1
get_user_by_chat_id(chat_id) ==
    IF chat_id \in DOMAIN users /\ users[chat_id].is_active
    THEN [role |-> users[chat_id].role, default_llm |-> users[chat_id].default_llm]
    ELSE NoUser

\* every user passes the owner test
is_owner_Anyone(user) == user.role \in {"owner", "user"}

\* user_manager.is_owner
is_owner(user) == user.role = "owner"

\* user_manager.get_preference(user, "default_llm")
get_preference(user) == user.default_llm

\* db.save_chat: the table with one more row
save_chat(hist, user_id, role, content, tool_used, llm_model, token_used) ==
    Append(hist, [user_id |-> user_id, role |-> role, content |-> content,
                  tool_used |-> tool_used, llm_model |-> llm_model,
                  token_used |-> token_used])

\* the selected rows as the query returns them, newest first
get_chat_context_NewestFirst(user_id, limit) ==
    LET rows == SelectSeq(chat_history, LAMBDA r : r.user_id = user_id)
        n == Len(rows)
        m == IF n <= limit THEN n ELSE limit
    IN [i \in 1..m |-> rows[n + 1 - i]]

\* the WHERE user_id = ? left out: the last `limit` rows of the table
get_chat_context_AllUsers(user_id, limit) ==
    LET n == Len(chat_history)
    IN IF n <= limit THEN chat_history ELSE SubSeq(chat_history, n - limit + 1, n)

\* db.get_chat_context: the last `limit` rows of the user, oldest first
get_chat_context(user_id, limit) ==
    LET rows == SelectSeq(chat_history, LAMBDA r : r.user_id = user_id)
        n == Len(rows)
    IN IF n <= limit THEN rows ELSE SubSeq(rows, n - limit + 1, n)

\* memory.get_context: role and content of each row
get_context(user_id) ==
    LET rows == get_chat_context(user_id, MAX_CONTEXT_MESSAGES)
    IN [i \in 1..Len(rows) |-> [role |-> rows[i].role, content |-> rows[i].content]]

\* db.log_tool_usage(user_id, tool_name, status="failed", error_message=str(e))
FailedLog(user_id, tool_name, e) ==
    [user_id |-> user_id, tool_name |-> tool_name, status |-> "failed",
     error_message |-> e]

\* ------------------------------------------------------------- dispatcher
\* the tuple dispatch returns
Reply(text, tool_used, llm_model, token_used) ==
    [text |-> text, tool_used |-> tool_used, llm_model |-> llm_model,
     token_used |-> token_used]

\* a step of dispatch ends in: a new position, new locals, rows for
\* tool_logs, and the users table
Outcome(newpc, l, logs) == [pc |-> newpc, loc |-> l, logs |-> logs, users |-> users]

\* dispatch returns r: control is back in process_message
Returned(l, r) == Outcome("post", [l EXCEPT !.reply = r], <<>>)

\* the exception leaves with the indicator still on
Propagated_NoExit(l, e) == Outcome("raised", [l EXCEPT !.exc = e], <<>>)

\* an exception leaves dispatch and process_message; the with block's
\* __exit__ runs on the way out
Propagated(l, e) ==
    Outcome("raised", [l EXCEPT !.exc = e, !.typing = "stopped"], <<>>)

\* the outer handler left out: the exception of the LLM routing escapes
LLMFailed_Uncaught(l, e) == Propagated(l, e)

\* dispatcher.py 185-187: the outer handler around the LLM routing
LLMFailed(l, e) ==
    Returned(l, Reply(<<"llm-processing-failed", e>>, None, None, 0))

\* the failed invocation is not logged
ToolFailed_NoLog(l, e) ==
    Outcome("post",
            [l EXCEPT !.reply = Reply(<<"tool-call-failed", l.tool, e>>, l.tool,
                                       l.resp.model, l.resp.token_used)],
            <<>>)

\* dispatcher.py 174-178: the handler around execute and the summary call
ToolFailed(l, e) ==
    Outcome("post",
            [l EXCEPT !.reply = Reply(<<"tool-call-failed", l.tool, e>>, l.tool,
                                       l.resp.model, l.resp.token_used)],
            <<FailedLog(l.user_id, l.tool, e)>>)

\* the reply does not carry the exception's text
DirectFailed_Generic(l, e) ==
    Outcome("post",
            [l EXCEPT !.reply = Reply(<<"error", "try-again">>, l.tool, None, 0)],
            <<FailedLog(l.user_id, l.tool, e)>>)

\* dispatcher.py 107-110: the handler around a direct command's execute
DirectFailed(l, e) ==
    Outcome("post",
            [l EXCEPT !.reply = Reply(<<"error", e, "try-again">>, l.tool, None, 0)],
            <<FailedLog(l.user_id, l.tool, e)>>)

\* llm_router.chat raised e to dispatch, at the first or at the summary call
ChatRaised(l, e) ==
    LET l1 == [l EXCEPT !.last.outcome = "raise", !.last.err = e]
    IN IF l.call = 1 THEN LLMFailed(l1, e) ELSE ToolFailed(l1, e)

\* LLMRouter.chat up to its first await (llm.py 36-44)
ChatBegin(l, k, msgs) ==
    LET p == get_fallback(l.provider)
        l1 == [l EXCEPT !.call = k, !.msgs = msgs, !.p = p, !.other = None,
                        !.llmCalls = @ + 1,
                        !.msgs1 = IF k = 1 THEN msgs ELSE @,
                        !.msgs2 = IF k = 2 THEN msgs ELSE @,
                        !.last = [NoCall EXCEPT !.resolved = p,
                                     !.attempts = IF p = None THEN <<>> ELSE <<p>>]]
    IN IF p = None THEN ChatRaised(l1, ErrNoProvider)
       ELSE Outcome("chat_wait", l1, <<>>)

\* dispatcher.py 150-164: build summary_messages and call the router again
Summarize(l) ==
    ChatBegin(l, 2,
        l.context \o
        << [role |-> "assistant", content |-> <<"[call", l.tool, "]">>],
           [role |-> "user",
            content |-> <<"result-of", l.tool>> \o l.tool_result \o <<"please-summarize">>] >>)

\* the first call's tokens forgotten in the total
AfterSummary_SecondOnly(l, summary) ==
    Returned([l EXCEPT !.summary = summary],
             Reply(summary.content, l.tool, summary.model, summary.token_used))

\* dispatcher.py 166-172: the reply after the summary call
AfterSummary(l, summary) ==
    Returned([l EXCEPT !.summary = summary],
             Reply(summary.content, l.tool, summary.model,
                   l.resp.token_used + summary.token_used))

\* the direct_output test left out: every output is summarized
AfterSelectedTool_AlwaysSummarize(l, tool_result) ==
    Summarize([l EXCEPT !.tool_result = tool_result, !.returned = TRUE])

\* dispatcher.py 141-164: after selected_tool.execute returned tool_result
AfterSelectedTool(l, tool_result) ==
    LET tool == get_tool(l.tool)
        l1 == [l EXCEPT !.tool_result = tool_result, !.returned = TRUE]
    IN IF tool.direct_output = "undeclared" THEN ToolFailed(l1, ErrAttribute)
       ELSE IF tool.direct_output = "True"
       THEN Returned(l1, Reply(tool_result, l.tool, l.resp.model, l.resp.token_used))
       ELSE Summarize(l1)

\* the `if selected_tool` test left out: an unknown name is executed too
AfterFirstCall_NoLookupTest(l, resp) ==
    LET l1 == [l EXCEPT !.resp = resp]
    IN IF resp.tool_call = None
       THEN Returned(l1, Reply(resp.content, None, resp.model, resp.token_used))
       ELSE Outcome("exec_selected",
                    [l1 EXCEPT !.tool = resp.tool_call,
                               !.execs = Append(@, resp.tool_call)], <<>>)

\* an unknown capability name is handed back to the model in a second call
AfterFirstCall_AskAgain(l, resp) ==
    LET l1 == [l EXCEPT !.resp = resp]
        direct == Returned(l1, Reply(resp.content, None, resp.model, resp.token_used))
    IN IF resp.tool_call = None THEN direct
       ELSE IF get_tool(resp.tool_call) = NoTool
       THEN Summarize([l1 EXCEPT !.tool = resp.tool_call])
       ELSE Outcome("exec_selected",
                    [l1 EXCEPT !.tool = resp.tool_call,
                               !.execs = Append(@, resp.tool_call)], <<>>)

\* a reply without capability call reports no tokens
AfterFirstCall_FreeOfCharge(l, resp) ==
    LET l1 == [l EXCEPT !.resp = resp]
        direct == Returned(l1, Reply(resp.content, None, resp.model, 0))
    IN IF resp.tool_call = None THEN direct
       ELSE IF get_tool(resp.tool_call) = NoTool THEN direct
       ELSE Outcome("exec_selected",
                    [l1 EXCEPT !.tool = resp.tool_call,
                               !.execs = Append(@, resp.tool_call)], <<>>)

\* dispatcher.py 130-183: after the first llm_router.chat returned resp
AfterFirstCall(l, resp) ==
    LET l1 == [l EXCEPT !.resp = resp]
        direct == Returned(l1, Reply(resp.content, None, resp.model, resp.token_used))
    IN IF resp.tool_call = None THEN direct
       ELSE IF get_tool(resp.tool_call) = NoTool THEN direct
       ELSE Outcome("exec_selected",
                    [l1 EXCEPT !.tool = resp.tool_call,
                               !.execs = Append(@, resp.tool_call)], <<>>)

\* llm_router.chat returned result r to dispatch
ChatReturned(l, r) ==
    LET l1 == [l EXCEPT !.reported = @ + r.token_used,
                        !.last.outcome = "ok", !.last.result = r]
    IN IF l.call = 1 THEN AfterFirstCall(l1, r) ELSE AfterSummary(l1, r)

\* ChatTurn.token_used of a row written without a token count (Python None)
NoTokens == -1

\* core/config.py WEBHOOK_HOST (its default: not set)
WEBHOOK_HOST == ""

\* a local reply is billed one token
Local_Billed(l, text) == Returned(l, Reply(text, None, None, 1))

\* dispatch returns a local reply: no tool, no model, no tokens
Local(l, text) == Returned(l, Reply(text, None, None, 0))

PermissionDenied == <<"owner-only-command">>

\* db.upsert_user(user_id, chat_id, display_name): insert, or on conflict
\* update display_name only
upsert_user(user_id, display_name) ==
    IF user_id \in DOMAIN users
    THEN [users EXCEPT ![user_id].display_name = display_name]
    ELSE [u \in DOMAIN users \cup {user_id} |->
            IF u = user_id
            THEN [is_active |-> TRUE, role |-> "user", default_llm |-> DEFAULT_LLM,
                  display_name |-> display_name]
            ELSE users[u]]

\* db.deactivate_user(chat_id)
deactivate_user(chat_id) ==
    IF chat_id \in DOMAIN users
    THEN [users EXCEPT ![chat_id].is_active = FALSE]
    ELSE users

\* the UPDATE left out
update_user_preference_Noop(user_id, value) == users

\* db.update_user_preference(user_id, "default_llm", value)
update_user_preference(user_id, value) ==
    IF user_id \in DOMAIN users
    THEN [users EXCEPT ![user_id].default_llm = value]
    ELSE users

\* dispatcher.py 190-208: _handle_model_command, <<reply text, users table>>
handle_model_command(user_id, args) ==
    LET available == get_available
        a == Lower(Strip(args))
        name == Join(a)
    IN IF a = <<>>
       THEN << <<"llm-available:">> \o available
               \o (IF available # <<>> THEN <<"usage", available[1]>> ELSE <<"none-configured">>),
               users >>
       ELSE IF \A i \in 1..Len(available) : available[i] # name
       THEN << <<"cannot-use", name, "available:">> \o available, users >>
       ELSE << <<"llm-changed-to", name>>, update_user_preference(user_id, name) >>

\* db.get_all_users, ORDER BY created_at (ids are created in increasing order)
get_all_users ==
    SelectSeq(<<"1", "2", "3">>, LAMBDA u : u \in DOMAIN users)

\* dispatcher.py 74-79: the /listusers reply
ListUsersText ==
    LET us == get_all_users
    IN <<"all-users", Digits[Len(us) + 1]>>
       \o [i \in 1..Len(us) |-> IF users[us[i]].is_active THEN "active" ELSE "inactive"]
       \o [i \in 1..Len(us) |-> users[us[i]].display_name]
       \o us
       \o [i \in 1..Len(us) |-> users[us[i]].role]

\* dispatcher.py 36-98: the reserved commands; an Outcome, or NoOutcome when
\* the command is not reserved
NoOutcome == [pc |-> None, loc |-> InitLocals, logs |-> <<>>, users |-> <<>>]

Reserved(l, command, args) ==
    LET l1 == [l EXCEPT !.route = "reserved"] IN
    IF command = CmdHelp THEN Local(l1, get_help_text)
    ELSE IF command = CmdModel
    THEN LET r == handle_model_command(l.user_id, args)
         IN [Local(l1, r[1]) EXCEPT !.users = r[2]]
    ELSE IF command = CmdAddUser
    THEN IF ~is_owner(l.user) THEN Local(l1, PermissionDenied)
         ELSE LET a == Strip(args) IN
              IF a = <<>> THEN Local(l1, <<"usage-adduser">>)
              ELSE LET new_chat_id == Join(FirstToken(a))
                       rest == RestAfterFirstToken(a)
                       display_name == IF rest # <<>> THEN Join(rest) ELSE new_chat_id
                   IN [Local(l1, <<"user-added", display_name, new_chat_id>>)
                         EXCEPT !.users = upsert_user(new_chat_id, display_name)]
    ELSE IF command = CmdRemoveUser
    THEN IF ~is_owner(l.user) THEN Local(l1, PermissionDenied)
         ELSE LET target_id == Join(Strip(args)) IN
              IF target_id = "" THEN Local(l1, <<"usage-removeuser">>)
              ELSE [Local(l1, <<"user-deactivated", target_id>>)
                      EXCEPT !.users = deactivate_user(target_id)]
    ELSE IF command = CmdListUsers
    THEN IF ~is_owner(l.user) THEN Local(l1, PermissionDenied)
         ELSE Local(l1, ListUsersText)
    ELSE IF command = CmdAuthGmail
    THEN IF WEBHOOK_HOST = "" THEN Local(l1, <<"set-WEBHOOK_HOST-first">>)
         ELSE Local(l1, <<"authorize-gmail-link">>)
    ELSE NoOutcome

\* the whole message is handed to execute instead of the parsed args
DispatchBegin_WholeText(l0) ==
    LET parsed == parse_command(l0.text)
        command == parsed[1]
        args == parsed[2]
        l == [l0 EXCEPT !.command = command]
        tool == IF command # <<>> THEN get_by_command(command) ELSE NoTool
    IN IF Reserved(l, command, args).pc # None
       THEN Reserved(l, command, args)
       ELSE IF tool # NoTool
       THEN Outcome("exec_direct",
                    [l EXCEPT !.route = "direct", !.tool = tool.name,
                              !.args = l.text,
                              !.execs = Append(@, tool.name)], <<>>)
       ELSE LET provider == get_preference(l.user)
                context == Append(get_context(l.user_id),
                                  [role |-> "user", content |-> l.text])
            IN ChatBegin([l EXCEPT !.route = "llm", !.provider = provider,
                                   !.context = context], 1, context)

\* dispatcher.py 36-127: dispatch from its entry to its first await or return
DispatchBegin(l0) ==
    LET parsed == parse_command(l0.text)
        command == parsed[1]
        args == parsed[2]
        l == [l0 EXCEPT !.command = command]
        tool == IF command # <<>> THEN get_by_command(command) ELSE NoTool
    IN IF Reserved(l, command, args).pc # None
       THEN Reserved(l, command, args)
       ELSE IF tool # NoTool
       THEN Outcome("exec_direct",
                    [l EXCEPT !.route = "direct", !.tool = tool.name,
                              !.args = args,
                              !.execs = Append(@, tool.name)], <<>>)
       ELSE LET provider == get_preference(l.user)
                context == Append(get_context(l.user_id),
                                  [role |-> "user", content |-> l.text])
            IN ChatBegin([l EXCEPT !.route = "llm", !.provider = provider,
                                   !.context = context], 1, context)

\* a step of turn t takes effect
Apply(t, o) ==
    /\ pc' = [pc EXCEPT ![t] = o.pc]
    /\ loc' = [loc EXCEPT ![t] = [o.loc EXCEPT !.logged = @ + Len(o.logs)]]
    /\ tool_logs' = tool_logs \o o.logs
    /\ users' = o.users

Finished == {"done", "dropped", "raised"}

\* -------------------------------------------------------------- scheduler
\* rows of table schedules the process can be started with, and job
\* activations that can start
MaxSched == 2
MaxRuns == 2

\* cron expressions as their whitespace-separated fields
CronOk == <<"0", "8", "*", "*", "*">>
CronBad == <<"every", "day">>
CronFieldValues == {"0", "8", "*"}

\* CronTrigger.from_crontab(expr): FALSE where it raises ValueError (not five
\* fields, or a field that is no cron field)
from_crontab_ok(expr) ==
    Len(expr) = 5 /\ \A i \in 1..Len(expr) : expr[i] \in CronFieldValues

ErrCron == "Wrong number of fields"

\* "custom_" + str(id)
CustomId(id) == "custom_" \o Digits[id + 1]

\* the shapes of a row of table schedules (without its id): either user with
\* a valid or a malformed cron expression, a capability that is not
\* registered, a row that is not active
ScheduleShapes ==
    {[user_id |-> OwnerId, tool_name |-> "traffic", cron_expr |-> CronOk,
      is_active |-> TRUE],
     [user_id |-> OwnerId, tool_name |-> "traffic", cron_expr |-> CronBad,
      is_active |-> TRUE],
     [user_id |-> "2", tool_name |-> "traffic", cron_expr |-> CronOk,
      is_active |-> TRUE],
     [user_id |-> GhostUserId, tool_name |-> "traffic", cron_expr |-> CronOk,
      is_active |-> TRUE]}
    \cup {[user_id |-> OwnerId, tool_name |-> "ghost_tool", cron_expr |-> CronOk,
            is_active |-> TRUE],
           [user_id |-> "2", tool_name |-> "traffic", cron_expr |-> CronOk,
            is_active |-> FALSE]}

\* the tables with n rows, ids 1..n (AUTOINCREMENT), never run
ScheduleTables(n) ==
    {[i \in 1..n |->
        [id |-> i, user_id |-> f[i].user_id, tool_name |-> f[i].tool_name,
         cron_expr |-> f[i].cron_expr, args |-> <<>>, is_active |-> f[i].is_active,
         last_run_at |-> None]] : f \in [1..n -> ScheduleShapes]}

\* db.get_active_schedules
get_active_schedules == SelectSeq(schedules, LAMBDA r : r.is_active)

\* db.update_schedule_last_run(schedule_id), at time now
update_schedule_last_run(schedule_id, now) ==
    [i \in 1..Len(schedules) |->
        IF schedules[i].id = schedule_id
        THEN [schedules[i] EXCEPT !.last_run_at = now]
        ELSE schedules[i]]

\* scheduler.add_job(func, args=..., id=id, replace_existing=True)
add_job(js, job) == {j \in js : j.id # job.id} \cup {job}

\* a job: the function it calls and the args it was added with
Job(id, func, user_id, chat_id, tool_name, args) ==
    [id |-> id, func |-> func, user_id |-> user_id, chat_id |-> chat_id,
     tool_name |-> tool_name, args |-> args]

\* scheduler.py 63-86: the two default jobs
DefaultJobs ==
    add_job(add_job({}, Job("morning_briefing", "_run_tool_for_user", OwnerId, OwnerId,
                            "email_summary", <<>>)),
            Job("daily_cleanup", "_cleanup_job", None, None, None, <<>>))

\* the try block of the loading loop without its handler: the ValueError
\* of a malformed cron expression leaves init_scheduler
LoadSchedule_Unguarded(st, sched) ==
    LET user == get_user_by_chat_id(sched.user_id)
        st1 == [st EXCEPT !.found = Append(@, user # NoUser)]
    IN IF user = NoUser THEN st1
       ELSE IF ~from_crontab_ok(sched.cron_expr)
       THEN [st1 EXCEPT !.exc = ErrCron]
       ELSE [st1 EXCEPT !.jobs = add_job(@, Job(CustomId(sched.id), "_run_tool_for_user",
                                                sched.user_id, sched.user_id,
                                                sched.tool_name, sched.args))]

\* scheduler.py 90-106: one iteration of the loading loop; st is the job
\* store, the exception that left the loop (None) and, per row met, whether
\* its user was found
LoadSchedule(st, sched) ==
    LET user == get_user_by_chat_id(sched.user_id)
        st1 == [st EXCEPT !.found = Append(@, user # NoUser)]
    IN IF user = NoUser THEN st1
       ELSE IF ~from_crontab_ok(sched.cron_expr)
       THEN st1
       ELSE [st1 EXCEPT !.jobs = add_job(@, Job(CustomId(sched.id), "_run_tool_for_user",
                                                sched.user_id, sched.user_id,
                                                sched.tool_name, sched.args))]

RECURSIVE LoadSchedules(_, _)
\* scheduler.py 89-106: for sched in custom_schedules
LoadSchedules(st, rows) ==
    IF rows = <<>> \/ st.exc # None THEN st
    ELSE LoadSchedules(LoadSchedule(st, Head(rows)), Tail(rows))

\* init_scheduler has not run
BootOff == [state |-> "off", rows |-> <<>>, found |-> <<>>]

\* no activation yet
NoJob == Job(None, None, None, None, None, <<>>)
NoRun == [pc |-> "idle", job |-> NoJob, result |-> <<>>, raised |-> None,
          exc |-> None, logged |-> 0, notice |-> None, escaped |-> None]

\* what happens to a message handed to send_message: delivered; not
\* delivered without an exception (_send_chunks returns False); an exception
SendOutcomes == {"delivered", "lost", "raised"}
ErrSend == "send error"

\* scheduler.py 46: the text of the failure notification
FailureText(tool_name, e) == <<"[Scheduled]", tool_name, "failed:", e>>

\* scheduler.py 42-44: the handler of _run_tool_for_user up to the send
RunFailed(r, e) == [r EXCEPT !.pc = "send_failure", !.logged = @ + 1]

\* the notification sent outside a try: its exception leaves the job
FailureNotified_Unguarded(r, out) ==
    [r EXCEPT !.pc = IF out = "raised" THEN "crashed" ELSE "done",
              !.notice = out,
              !.escaped = IF out = "raised" THEN ErrSend ELSE None]

\* scheduler.py 45-48: try: send_message(...) except Exception: pass
FailureNotified(r, out) == [r EXCEPT !.pc = "done", !.notice = out]

\* the credential set-ups the process is started with
ConfiguredChoices ==
    {ProviderNames, {"gemini", "ollama"}, {"claude"}, {}}

\* the components exercised on their own, untouched
\* an empty table oauth_states at tick 0 and no get_oauth_state call
OAuthIdle ==
    /\ oauth_states = <<>>
    /\ clock = 0
    /\ caller = [c \in Callers |-> CallerIdle]
    /\ issued = <<>>
    /\ handed = <<>>

UnitsIdle ==
    /\ toolReg = [tools |-> <<>>, command_map |-> <<>>]
    /\ exported = <<>>
    /\ provReg = <<>>
    /\ answer = NoAnswer
    /\ input = <<>>
    /\ output = NoParse
    /\ typer = [t \in Turns |-> TyperOff]
    /\ OAuthIdle

Init ==
    /\ mode \in {"polling", "webhook"}
    /\ configured \in ConfiguredChoices
    /\ authFailed = {}
    /\ users = [u \in UserIds |->
                  IF u = OwnerId
                  THEN [is_active |-> TRUE, role |-> "owner", default_llm |-> DEFAULT_LLM,
                        display_name |-> "Owner"]
                  ELSE [is_active |-> TRUE, role |-> "user", default_llm |-> "gemini",
                        display_name |-> u]]
    /\ chat_history = <<>>
    /\ tool_logs = <<>>
    /\ pc = [t \in Turns |-> "idle"]
    /\ loc = [t \in Turns |-> InitLocals]
    /\ schedules = <<>>
    /\ jobs = {}
    /\ boot = BootOff
    /\ run = NoRun
    /\ outbox = <<>>
    /\ fired = 0
    /\ last_run_info = None
    /\ UnitsIdle

\* telegram_polling._handle_update / telegram_webhook._process_update, then
\* process_message up to dispatch: auth check, typing on, save_user_message
HandleUpdate(t) ==
    /\ pc[t] = "idle"
    /\ \A s \in Turns : s < t => pc[s] # "idle"
    /\ mode = "polling" => \A s \in Turns \ {t} : pc[s] \in Finished \cup {"idle"}
    /\ \E chat_id \in UserIds,
          text \in (IF mode = "polling" THEN InboundTexts ELSE OverlapTexts) :
         LET user == get_user_by_chat_id(chat_id)
             stripped == Strip(text)
         IN IF user = NoUser \/ stripped = <<>>
            THEN /\ pc' = [pc EXCEPT ![t] = "dropped"]
                 /\ loc' = [loc EXCEPT ![t].user_id = chat_id]
                 /\ UNCHANGED chat_history
            ELSE /\ pc' = [pc EXCEPT ![t] = "dispatch"]
                 /\ loc' = [loc EXCEPT ![t] =
                              [InitLocals EXCEPT !.user_id = chat_id, !.user = user,
                                                 !.text = stripped, !.typing = "on"]]
                 /\ chat_history' = save_chat(chat_history, chat_id, "user", stripped,
                                              None, None, NoTokens)
    /\ UNCHANGED <<unitVars, schedVars, mode, configured, authFailed, users, tool_logs>>

\* dispatch runs from its entry to its first suspension or to its return
DispatchStart(t) ==
    /\ pc[t] = "dispatch"
    /\ Apply(t, DispatchBegin(loc[t]))
    /\ UNCHANGED <<unitVars, schedVars, mode, configured, authFailed, chat_history>>

\* llm.py 44: the resolved provider's chat returns a result
ProviderChatOk(t) ==
    /\ pc[t] = "chat_wait"
    /\ \E r \in LLMResults(loc[t].p) :
         /\ loc[t].call = 2 => r.tool_call = None
         /\ Apply(t, ChatReturned(loc[t], r))
    /\ UNCHANGED <<unitVars, schedVars, mode, configured, authFailed, chat_history>>

\* llm.py 45-71: the resolved provider's chat raises
ProviderChatFail(t) ==
    /\ pc[t] = "chat_wait"
    /\ \E e \in ProviderErrors :
         LET l == [loc[t] EXCEPT !.last.perr = e] IN
         IF is_auth_error(e)
         THEN LET marked == MarkAuthFailed(authFailed, l.p)
                  eligible == SelectSeq(providers,
                                 LAMBDA n : n # l.p /\ n \in configured /\ n \notin marked)
                  l1 == [l EXCEPT !.last.authFail = TRUE, !.last.eligible = eligible]
              IN /\ authFailed' = marked
                 /\ IF eligible # <<>>
                    THEN Apply(t, Outcome("fallback_wait",
                                   [l1 EXCEPT !.other = Head(eligible),
                                              !.last.attempts = Append(@, Head(eligible))],
                                   <<>>))
                    ELSE Apply(t, ChatRaised(l1, ErrNoFallback))
         ELSE /\ authFailed' = authFailed
              /\ Apply(t, ChatRaised(l, e))
    /\ UNCHANGED <<unitVars, schedVars, mode, configured, chat_history>>

\* llm.py 63: the fallback provider's chat returns a result
FallbackChatOk(t) ==
    /\ pc[t] = "fallback_wait"
    /\ \E r \in LLMResults(loc[t].other) :
         /\ loc[t].call = 2 => r.tool_call = None
         /\ Apply(t, ChatReturned(loc[t], r))
    /\ UNCHANGED <<unitVars, schedVars, mode, configured, authFailed, chat_history>>

\* llm.py 63: the fallback provider's chat raises; nothing catches it in chat
FallbackChatFail(t) ==
    /\ pc[t] = "fallback_wait"
    /\ \E e \in ProviderErrors : Apply(t, ChatRaised(loc[t], e))
    /\ UNCHANGED <<unitVars, schedVars, mode, configured, authFailed, chat_history>>

\* dispatcher.py 105 / 138: the capability's execute returns
ToolReturn(t) ==
    /\ pc[t] \in {"exec_direct", "exec_selected"}
    /\ \E out \in ToolOutputs :
         IF pc[t] = "exec_direct"
         THEN Apply(t, Returned([loc[t] EXCEPT !.tool_result = out, !.returned = TRUE],
                                Reply(out, loc[t].tool, None, 0)))
         ELSE Apply(t, AfterSelectedTool(loc[t], out))
    /\ UNCHANGED <<unitVars, schedVars, mode, configured, authFailed, chat_history>>

\* dispatcher.py 107 / 174: the capability's execute raises
ToolRaise(t) ==
    /\ pc[t] \in {"exec_direct", "exec_selected"}
    /\ \E e \in ToolErrors :
         IF pc[t] = "exec_direct"
         THEN Apply(t, DirectFailed([loc[t] EXCEPT !.raised = e], e))
         ELSE Apply(t, ToolFailed([loc[t] EXCEPT !.raised = e], e))
    /\ UNCHANGED <<unitVars, schedVars, mode, configured, authFailed, chat_history>>

\* dispatcher.py 223-233 and TypingIndicator.__exit__: save_assistant_message
PostProcess(t) ==
    /\ pc[t] = "post"
    /\ chat_history' = save_chat(chat_history, loc[t].user_id, "assistant",
                                 loc[t].reply.text, loc[t].reply.tool_used,
                                 loc[t].reply.llm_model, loc[t].reply.token_used)
    /\ pc' = [pc EXCEPT ![t] = "send"]
    /\ loc' = [loc EXCEPT ![t].typing = "stopped"]
    /\ UNCHANGED <<unitVars, schedVars, mode, configured, authFailed, users, tool_logs>>

\* dispatcher.py 236: send_message; process_message returns
Send(t) ==
    /\ pc[t] = "send"
    /\ pc' = [pc EXCEPT ![t] = "done"]
    /\ loc' = [loc EXCEPT ![t] = [InitLocals EXCEPT !.typing = loc[t].typing]]
    /\ UNCHANGED <<unitVars, schedVars, mode, configured, authFailed, users, chat_history, tool_logs>>

Next ==
    \E t \in Turns :
        \/ HandleUpdate(t)
        \/ DispatchStart(t)
        \/ ProviderChatOk(t)
        \/ ProviderChatFail(t)
        \/ FallbackChatOk(t)
        \/ FallbackChatFail(t)
        \/ ToolReturn(t)
        \/ ToolRaise(t)
        \/ PostProcess(t)
        \/ Send(t)

Spec == Init /\ [][Next]_vars

\* ------------------------------------------------- the scheduler's actions
\* the process starts with some table schedules; user 2 is active or has
\* been deactivated; no turn runs
InitSched ==
    /\ mode = "polling"
    /\ configured = ProviderNames
    /\ authFailed = {}
    /\ \E a \in BOOLEAN :
         users = [u \in UserIds |->
                    IF u = OwnerId
                    THEN [is_active |-> TRUE, role |-> "owner", default_llm |-> DEFAULT_LLM,
                          display_name |-> "Owner"]
                    ELSE [is_active |-> a, role |-> "user", default_llm |-> "gemini",
                          display_name |-> u]]
    /\ chat_history = <<>>
    /\ tool_logs = <<>>
    /\ pc = [t \in Turns |-> "idle"]
    /\ loc = [t \in Turns |-> InitLocals]
    /\ schedules \in UNION {ScheduleTables(n) : n \in 0..MaxSched}
    /\ jobs = {}
    /\ boot = BootOff
    /\ run = NoRun
    /\ outbox = <<>>
    /\ fired = 0
    /\ last_run_info = None
    /\ UnitsIdle

\* scheduler.py 60-109: init_scheduler
InitScheduler ==
    /\ boot.state = "off"
    /\ LET rows == get_active_schedules
           st == LoadSchedules([jobs |-> DefaultJobs, exc |-> None, found |-> <<>>], rows)
       IN /\ jobs' = st.jobs
          /\ boot' = [state |-> IF st.exc = None THEN "started" ELSE "failed",
                      rows |-> rows, found |-> st.found]
    /\ UNCHANGED <<unitVars, turnVars, users, tool_logs, schedules, run, outbox, fired,
                   last_run_info>>

\* scheduler.py 22-29: a job's trigger fires and _run_tool_for_user starts
JobFire ==
    /\ boot.state = "started"
    /\ run.pc \in {"idle", "done", "crashed"}
    /\ fired < MaxRuns
    /\ \E j \in jobs :
         /\ j.func = "_run_tool_for_user"
         /\ run' = [NoRun EXCEPT !.job = j,
                                 !.pc = IF get_tool(j.tool_name) = NoTool
                                        THEN "done" ELSE "exec"]
    /\ fired' = fired + 1
    /\ UNCHANGED <<unitVars, turnVars, users, tool_logs, schedules, jobs, boot, outbox,
                   last_run_info>>

\* scheduler.py 35: tool.execute returns
JobToolReturn ==
    /\ run.pc = "exec"
    /\ \E out \in ToolOutputs : run' = [run EXCEPT !.pc = "send_result", !.result = out]
    /\ UNCHANGED <<unitVars, turnVars, users, tool_logs, schedules, jobs, boot, outbox, fired,
                   last_run_info>>

\* scheduler.py 35, 42-44: tool.execute raises
JobToolRaise ==
    /\ run.pc = "exec"
    /\ \E e \in ToolErrors :
         /\ run' = RunFailed([run EXCEPT !.raised = e], e)
         /\ tool_logs' = Append(tool_logs, FailedLog(run.job.user_id, run.job.tool_name, e))
    /\ UNCHANGED <<unitVars, turnVars, users, schedules, jobs, boot, outbox, fired, last_run_info>>

\* scheduler.py 39-40: send_message(chat_id, result), then _last_run_info
JobSendResult ==
    /\ run.pc = "send_result"
    /\ \E out \in SendOutcomes :
         IF out = "raised"
         THEN /\ run' = RunFailed([run EXCEPT !.exc = ErrSend], ErrSend)
              /\ tool_logs' = Append(tool_logs,
                                    FailedLog(run.job.user_id, run.job.tool_name, ErrSend))
              /\ UNCHANGED <<outbox, last_run_info>>
         ELSE /\ run' = [run EXCEPT !.pc = "done"]
              /\ outbox' = IF out = "delivered"
                           THEN Append(outbox, [chat_id |-> run.job.chat_id,
                                                text |-> run.result])
                           ELSE outbox
              /\ last_run_info' = run.job.tool_name
              /\ UNCHANGED tool_logs
    /\ UNCHANGED <<unitVars, turnVars, users, schedules, jobs, boot, fired>>

\* scheduler.py 45-48: the failure notification
JobSendFailure ==
    /\ run.pc = "send_failure"
    /\ \E out \in SendOutcomes :
         /\ run' = FailureNotified(run, out)
         /\ outbox' = IF out = "delivered"
                      THEN Append(outbox,
                             [chat_id |-> run.job.chat_id,
                              text |-> FailureText(run.job.tool_name,
                                         IF run.raised # None THEN run.raised ELSE run.exc)])
                      ELSE outbox
    /\ UNCHANGED <<unitVars, turnVars, users, tool_logs, schedules, jobs, boot, fired,
                   last_run_info>>

\* scheduler.py 49-58: _cleanup_job (no row of the model is old enough to go)
CleanupJob ==
    /\ boot.state = "started"
    /\ run.pc \in {"idle", "done", "crashed"}
    /\ \E j \in jobs : j.func = "_cleanup_job"
    /\ last_run_info' = "cleanup"
    /\ UNCHANGED <<unitVars, turnVars, users, tool_logs, schedules, jobs, boot, run, outbox, fired>>

NextSched ==
    \/ InitScheduler
    \/ JobFire
    \/ JobToolReturn
    \/ JobToolRaise
    \/ JobSendResult
    \/ JobSendFailure
    \/ CleanupJob

SpecSched == InitSched /\ [][NextSched]_vars

\* dispatcher.py 59-68: the owner's /removeuser of another user is handled
\* by the bot while the scheduler's thread runs
RemoveUserCommand ==
    /\ \E target_id \in UserIds \ {OwnerId} : users' = deactivate_user(target_id)
    /\ UNCHANGED <<unitVars, turnVars, schedVars, tool_logs>>

NextJobs ==
    \/ NextSched
    \/ RemoveUserCommand

\* rows that earlier turns of the owner and of user 2 left in chat_history
StoredHistory ==
    << [user_id |-> OwnerId, role |-> "user", content |-> TextHi, tool_used |-> None,
        llm_model |-> None, token_used |-> NoTokens],
       [user_id |-> "2", role |-> "user", content |-> TextHi, tool_used |-> None,
        llm_model |-> None, token_used |-> NoTokens],
       [user_id |-> OwnerId, role |-> "assistant", content |-> <<"chat-reply">>,
        tool_used |-> None, llm_model |-> "claude-model", token_used |-> 0] >>

\* the process starts with some table schedules and all users active, on an
\* empty chat_history or on one that earlier turns filled
InitJobs ==
    /\ mode = "polling"
    /\ configured = ProviderNames
    /\ authFailed = {}
    /\ users = [u \in UserIds |->
                  IF u = OwnerId
                  THEN [is_active |-> TRUE, role |-> "owner", default_llm |-> DEFAULT_LLM,
                        display_name |-> "Owner"]
                  ELSE [is_active |-> TRUE, role |-> "user", default_llm |-> "gemini",
                        display_name |-> u]]
    /\ chat_history \in {<<>>, StoredHistory}
    /\ tool_logs = <<>>
    /\ pc = [t \in Turns |-> "idle"]
    /\ loc = [t \in Turns |-> InitLocals]
    /\ schedules \in UNION {ScheduleTables(n) : n \in 0..MaxSched}
    /\ jobs = {}
    /\ boot = BootOff
    /\ run = NoRun
    /\ outbox = <<>>
    /\ fired = 0
    /\ last_run_info = None
    /\ UnitsIdle

\* the scheduler next to a bot that deactivates users
SpecJobs == InitJobs /\ [][NextJobs]_vars

\* ------------------------------------------- components on their own
\* the process with no turn, no job and nothing stored
ProgramIdle ==
    /\ mode = "polling"
    /\ authFailed = {}
    /\ users = [u \in UserIds |->
                  IF u = OwnerId
                  THEN [is_active |-> TRUE, role |-> "owner", default_llm |-> DEFAULT_LLM,
                        display_name |-> "Owner"]
                  ELSE [is_active |-> TRUE, role |-> "user", default_llm |-> "gemini",
                        display_name |-> u]]
    /\ chat_history = <<>>
    /\ tool_logs = <<>>
    /\ schedules = <<>>
    /\ jobs = {}
    /\ boot = BootOff
    /\ run = NoRun
    /\ outbox = <<>>
    /\ fired = 0
    /\ last_run_info = None

programVars == <<mode, configured, authFailed, users, chat_history, tool_logs, pc, loc,
                 schedVars>>

\* tool objects handed to ToolRegistry._register: the discovered classes, a
\* second class named traffic, one that declares /route too, one that kept
\* BaseTool's empty name, and one with no command and no parameter
RegisterCandidates ==
    {ToolClasses[i] : i \in 1..Len(ToolClasses)} \cup
    {[name |-> "traffic", commands |-> <<CmdTraffic>>, direct_output |-> "False",
      description |-> "check a route, again", schema |-> <<"origin">>],
     [name |-> "route_plan", commands |-> <<CmdRoute>>, direct_output |-> "undeclared",
      description |-> "plan a route", schema |-> <<>>],
     [name |-> "", commands |-> <<CmdNotes>>, direct_output |-> "undeclared",
      description |-> "", schema |-> <<>>],
     [name |-> "quiet", commands |-> <<>>, direct_output |-> "undeclared",
      description |-> "", schema |-> <<>>]}

\* how many times get_all_specs is called between two _register calls
MaxExports == 2

InitReg ==
    /\ ProgramIdle
    /\ pc = [t \in Turns |-> "idle"]
    /\ loc = [t \in Turns |-> InitLocals]
    /\ configured = ProviderNames
    /\ UnitsIdle

\* tools/registry.py 40-49: _register(tool)
Register(tool) ==
    /\ toolReg' = RegisterTool(toolReg, tool)
    /\ exported' = <<>>
    /\ UNCHANGED <<programVars, oauthVars, provReg, answer, input, output, typer>>

\* tools/registry.py 60-61: get_all_specs()
ExportSpecs ==
    /\ Len(exported) < MaxExports
    /\ exported' = Append(exported, ToolRegistry_get_all_specs(toolReg))
    /\ UNCHANGED <<programVars, oauthVars, toolReg, provReg, answer, input, output, typer>>

NextReg ==
    \/ \E tool \in RegisterCandidates : Register(tool)
    \/ ExportSpecs

SpecReg == InitReg /\ [][NextReg]_vars

\* a ProviderRegistry with nothing registered; any set of the provider
\* classes has its credentials
InitResolve ==
    /\ ProgramIdle
    /\ pc = [t \in Turns |-> "idle"]
    /\ loc = [t \in Turns |-> InitLocals]
    /\ configured \in SUBSET ProviderNames
    /\ UnitsIdle

\* providers/registry.py 43-48: _register(provider), in any order; "" is a
\* provider class that kept BaseLLMProvider's empty name
RegisterProv(name) ==
    /\ provReg' = RegisterProvider(provReg, name)
    /\ answer' = NoAnswer
    /\ UNCHANGED <<programVars, oauthVars, toolReg, exported, input, output, typer>>

\* providers/registry.py 58-74: get_fallback(preferred)
Resolve(preferred) ==
    /\ answer' = [asked |-> TRUE, preferred |-> preferred,
                  got |-> ProviderRegistry_get_fallback(provReg, configured, preferred)]
    /\ UNCHANGED <<programVars, oauthVars, toolReg, exported, provReg, input, output, typer>>

NextResolve ==
    \/ \E name \in ProviderNames \cup {""} : RegisterProv(name)
    \/ \E preferred \in PreferredNames : Resolve(preferred)

SpecResolve == InitResolve /\ [][NextResolve]_vars

\* the texts handed to parse_command: up to MaxLen characters of Alphabet
MaxLen == 6
Alphabet == {"/", "a", "B", "@", " "}

InitParse ==
    /\ ProgramIdle
    /\ pc = [t \in Turns |-> "idle"]
    /\ loc = [t \in Turns |-> InitLocals]
    /\ configured = ProviderNames
    /\ toolReg = [tools |-> <<>>, command_map |-> <<>>]
    /\ exported = <<>>
    /\ provReg = <<>>
    /\ answer = NoAnswer
    /\ input \in UNION {[1..n -> Alphabet] : n \in 0..MaxLen}
    /\ output = NoParse
    /\ typer = [t \in Turns |-> TyperOff]
    /\ OAuthIdle

\* interfaces/telegram_common.py 245-257: parse_command(text)
ParseCommand ==
    /\ ~output.called
    /\ output' = [called |-> TRUE, command |-> parse_command(input)[1],
                  args |-> parse_command(input)[2]]
    /\ UNCHANGED <<programVars, oauthVars, toolReg, exported, provReg, answer, input, typer>>

NextParse == ParseCommand

SpecParse == InitParse /\ [][NextParse]_vars

\* how many updates the indicator thread may send after the stop signal
MaxLate == 2

\* sqlite3.OperationalError out of a db call
ErrDb == "database is locked"

\* one message is taken up (turn 1), the indicator thread runs beside it;
\* turn 2 is over
InitTyping ==
    /\ ProgramIdle
    /\ configured \in ConfiguredChoices
    /\ pc = [t \in Turns |-> IF t = 1 THEN "idle" ELSE "done"]
    /\ loc = [t \in Turns |-> IF t = 1 THEN InitLocals
                               ELSE [InitLocals EXCEPT !.typing = "stopped"]]
    /\ UnitsIdle

\* TypingIndicator._stop_event.is_set()
StopIsSet(t) == loc[t].typing = "stopped"

\* dispatcher.py 218-219: the auth check passed, the indicator is on and
\* save_user_message raises
SaveUserRaise(t) ==
    /\ pc[t] = "idle"
    /\ \E chat_id \in UserIds :
         LET user == get_user_by_chat_id(chat_id)
         IN /\ user # NoUser
            /\ Apply(t, Propagated([InitLocals EXCEPT !.user_id = chat_id, !.user = user,
                                                      !.text = TextHi, !.typing = "on"],
                                   ErrDb))
    /\ UNCHANGED <<unitVars, schedVars, mode, configured, authFailed, chat_history>>

\* dispatcher.py 221: dispatch raises (a db call of its own that no handler
\* of its encloses, such as get_context at 114)
DispatchRaise(t) ==
    /\ pc[t] = "dispatch"
    /\ Apply(t, Propagated(loc[t], ErrDb))
    /\ UNCHANGED <<unitVars, schedVars, mode, configured, authFailed, chat_history>>

\* dispatcher.py 229-233: save_assistant_message raises
SaveAssistantRaise(t) ==
    /\ pc[t] = "post"
    /\ Apply(t, Propagated(loc[t], ErrDb))
    /\ UNCHANGED <<unitVars, schedVars, mode, configured, authFailed, chat_history>>

\* telegram_common.py 210-213: __enter__ started the thread
TypingStart(t) ==
    /\ typer[t].at = "off" /\ loc[t].typing # "off"
    /\ typer' = [typer EXCEPT ![t].at = "check"]
    /\ UNCHANGED <<programVars, oauthVars, toolReg, exported, provReg, answer, input, output>>

\* telegram_common.py 206: while not self._stop_event.is_set()
TypingCheck(t) ==
    /\ typer[t].at = "check"
    /\ typer' = [typer EXCEPT ![t].at = IF StopIsSet(t) THEN "ended" ELSE "send"]
    /\ UNCHANGED <<programVars, oauthVars, toolReg, exported, provReg, answer, input, output>>

\* telegram_common.py 207: send_typing(self.chat_id)
TypingSend(t) ==
    /\ typer[t].at = "send"
    /\ typer[t].late < MaxLate
    /\ typer' = [typer EXCEPT ![t].at = "wait",
                              ![t].late = IF StopIsSet(t) THEN @ + 1 ELSE @]
    /\ UNCHANGED <<programVars, oauthVars, toolReg, exported, provReg, answer, input, output>>

\* telegram_common.py 208: self._stop_event.wait(self.interval) returns
TypingWake(t) ==
    /\ typer[t].at = "wait"
    /\ typer' = [typer EXCEPT ![t].at = "check"]
    /\ UNCHANGED <<programVars, oauthVars, toolReg, exported, provReg, answer, input, output>>

NextTyping ==
    \E t \in Turns :
        \/ HandleUpdate(t)
        \/ SaveUserRaise(t)
        \/ DispatchStart(t)
        \/ DispatchRaise(t)
        \/ ProviderChatOk(t)
        \/ ProviderChatFail(t)
        \/ FallbackChatOk(t)
        \/ FallbackChatFail(t)
        \/ ToolReturn(t)
        \/ ToolRaise(t)
        \/ PostProcess(t)
        \/ SaveAssistantRaise(t)
        \/ Send(t)
        \/ TypingStart(t)
        \/ TypingCheck(t)
        \/ TypingSend(t)
        \/ TypingWake(t)

SpecTyping == InitTyping /\ [][NextTyping]_vars

\* ------------------------------------------------------------ OAuth states
\* the state strings generate_auth_url may draw, the ticks of a day, the
\* ticks a state is valid for (15 minutes), and the last tick of the clock
OauthStates == {"s1", "s2"}
TicksPerDay == 2
StateTtl == 1
MaxClock == 3

\* a timestamp text as codes: the date, the separator character, the time
SepT == 84
SepSpace == 32

\* datetime.isoformat(): 'YYYY-MM-DDTHH:MM:SS', the host's clock taken as UTC
isoformat(c) == <<c \div TicksPerDay, SepT, c % TicksPerDay>>

\* SQLite datetime('now'): 'YYYY-MM-DD HH:MM:SS'
sqlite_datetime_now(c) == <<c \div TicksPerDay, SepSpace, c % TicksPerDay>>

\* SQLite's > on two TEXT values: the first differing character decides
RECURSIVE TextGreater(_, _)
TextGreater(a, b) ==
    IF a = <<>> THEN FALSE
    ELSE IF b = <<>> THEN TRUE
    ELSE IF Head(a) # Head(b) THEN Head(a) > Head(b)
    ELSE TextGreater(Tail(a), Tail(b))

\* gmail_oauth.py 35-37, db.save_oauth_state: INSERT OR REPLACE
save_oauth_state(table, state, user_id, chat_id, expires_at) ==
    [s \in DOMAIN table \cup {state} |->
        IF s = state
        THEN [user_id |-> user_id, chat_id |-> chat_id, expires_at |-> expires_at]
        ELSE table[s]]

\* db.py 310-313: SELECT * FROM oauth_states WHERE state = ? AND
\* expires_at > datetime('now')
SelectOauthState(table, state, c) ==
    IF state \in DOMAIN table /\ TextGreater(table[state].expires_at, sqlite_datetime_now(c))
    THEN table[state]
    ELSE NoRow

\* db.py 315: DELETE FROM oauth_states WHERE state = ?
DeleteOauthState(table, state) == [s \in DOMAIN table \ {state} |-> table[s]]

\* the process with an empty table oauth_states and no call
InitOAuth ==
    /\ ProgramIdle
    /\ pc = [t \in Turns |-> "idle"]
    /\ loc = [t \in Turns |-> InitLocals]
    /\ configured = ProviderNames
    /\ UnitsIdle

\* gmail_oauth.py 35-37: generate_auth_url draws a fresh state and saves it
GenerateAuthUrl ==
    /\ clock + StateTtl <= MaxClock
    /\ \E state \in OauthStates \ DOMAIN issued, user_id \in UserIds :
         /\ oauth_states' = save_oauth_state(oauth_states, state, user_id, user_id,
                                             isoformat(clock + StateTtl))
         /\ issued' = [s \in DOMAIN issued \cup {state} |->
                         IF s = state THEN clock + StateTtl ELSE issued[s]]
    /\ UNCHANGED <<programVars, toolReg, exported, provReg, answer, input, output, typer,
                   clock, caller, handed>>

\* time passes
ClockTick ==
    /\ clock < MaxClock
    /\ clock' = clock + 1
    /\ UNCHANGED <<programVars, toolReg, exported, provReg, answer, input, output, typer,
                   oauth_states, caller, issued, handed>>

\* db.py 309-314, 317: a call opens its connection and selects; with no row
\* it returns None
GetOauthStateSelect(c) ==
    /\ caller[c].pc \in {"idle", "done"}
    /\ \E state \in OauthStates :
         LET row == SelectOauthState(oauth_states, state, clock)
         IN caller' = [caller EXCEPT ![c] =
                         [pc |-> IF row = NoRow THEN "done" ELSE "selected",
                          state |-> state, row |-> row, at |-> clock]]
    /\ UNCHANGED <<programVars, toolReg, exported, provReg, answer, input, output, typer,
                   oauth_states, clock, issued, handed>>

\* db.py 315-316: the call deletes the state and returns the row it selected
GetOauthStateDelete(c) ==
    /\ caller[c].pc = "selected"
    /\ oauth_states' = DeleteOauthState(oauth_states, caller[c].state)
    /\ handed' = Append(handed, [state |-> caller[c].state, at |-> caller[c].at,
                                 record |-> caller[c].row])
    /\ caller' = [caller EXCEPT ![c].pc = "done"]
    /\ UNCHANGED <<programVars, toolReg, exported, provReg, answer, input, output, typer,
                   clock, issued>>

NextOAuth ==
    \/ GenerateAuthUrl
    \/ ClockTick
    \/ \E c \in Callers : GetOauthStateSelect(c) \/ GetOauthStateDelete(c)

SpecOAuth == InitOAuth /\ [][NextOAuth]_vars

\* how many rows chat_history gets
MaxRecords == 12

\* the content of the n-th row written: n characters
Content(n) == [i \in 1..n |-> "x"]

InitMem ==
    /\ ProgramIdle
    /\ pc = [t \in Turns |-> "idle"]
    /\ loc = [t \in Turns |-> InitLocals]
    /\ configured = ProviderNames
    /\ UnitsIdle

\* core/memory.py 8-9: save_user_message(user_id, content)
SaveUserMessage(user_id) ==
    /\ Len(chat_history) < MaxRecords
    /\ chat_history' = save_chat(chat_history, user_id, "user",
                                 Content(Len(chat_history) + 1), None, None, NoTokens)
    /\ UNCHANGED <<unitVars, schedVars, mode, configured, authFailed, users, tool_logs,
                   pc, loc>>

\* core/memory.py 12-17: save_assistant_message(user_id, content, tool_used,
\* llm_model, token_used); as in process_message, the reply to the user's
\* turn written last
SaveAssistantMessage(user_id) ==
    /\ Len(chat_history) < MaxRecords
    /\ Len(chat_history) > 0
    /\ chat_history[Len(chat_history)].user_id = user_id
    /\ chat_history[Len(chat_history)].role = "user"
    /\ chat_history' = save_chat(chat_history, user_id, "assistant",
                                 Content(Len(chat_history) + 1), "traffic", "claude-model", 0)
    /\ UNCHANGED <<unitVars, schedVars, mode, configured, authFailed, users, tool_logs,
                   pc, loc>>

NextMem ==
    \/ \E u \in UserIds : SaveUserMessage(u)
    \/ SaveAssistantMessage(OwnerId)

SpecMem == InitMem /\ [][NextMem]_vars

\* ------------------------------------------------------------ properties
InReply == {"post", "send"}

\* the selected capability of turn t, when the model selected a known one
Selected(t) == get_tool(loc[t].tool)

\* turn t went through the LLM, the model selected a known capability and
\* its execute has returned normally
SelectedReturned(t) ==
    loc[t].route = "llm" /\ loc[t].tool # None /\ loc[t].returned

\* C1: once a provider P is marked auth-failed, resolve(preferred) returns a
\* provider other than P (or none), for every preferred name, P included.
C1_ResolveSkipsAuthFailed ==
    \A P \in authFailed : \A preferred \in PreferredNames :
        get_fallback(preferred) # P

\* C2: after an authentication failure of the resolved provider, chat tries
\* the other configured, non-auth-failed providers one after another in
\* registration order and returns the first success: a call that ended has
\* tried a prefix of them, all of them if it ended by raising, and a result
\* it returned is the result of the last one tried.
C2_TriesEveryAlternate ==
    \A t \in Turns :
        LET c == loc[t].last
            tried == Tail(c.attempts)
        IN (c.authFail /\ c.outcome \in {"ok", "raise"}) =>
              /\ Len(tried) <= Len(c.eligible)
              /\ tried = SubSeq(c.eligible, 1, Len(tried))
              /\ c.outcome = "raise" => tried = c.eligible
              /\ c.outcome = "ok" =>
                    c.result.model = get_model(tried[Len(tried)])

\* C3: when the resolved provider fails with an authentication error and no
\* alternate succeeds, chat raises a configuration error, never an
\* alternate's own error.
C3_ExhaustedIsConfigError ==
    \A t \in Turns :
        (loc[t].last.authFail /\ loc[t].last.outcome = "raise") =>
            loc[t].last.err \in ConfigErrors

C5_NoUserTurnWithoutReply ==
    \A u \in UserIds :
        Len(SelectSeq(chat_history, LAMBDA r : r.user_id = u /\ r.role = "user"))
          = Len(SelectSeq(chat_history, LAMBDA r : r.user_id = u /\ r.role = "assistant"))

\* C6: a model-selected capability that does not declare direct_output and
\* whose execute returned is summarized by a second LLM Router call: two
\* calls are made, no failed invocation is logged, and when the second call
\* returned the reply is its text.
C6_UndeclaredIsSummarized ==
    \A t \in Turns :
        (SelectedReturned(t) /\ Selected(t).direct_output = "undeclared") =>
            /\ loc[t].llmCalls = 2
            /\ loc[t].logged = 0
            /\ (pc[t] \in InReply /\ loc[t].last.outcome = "ok") =>
                   loc[t].reply.text = loc[t].last.result.content

\* C7: a model-selected known capability that is not direct-output and whose
\* execute returned has been executed exactly once, exactly one second LLM
\* Router call has been issued with the original context followed by the
\* synthetic assistant turn and the user turn carrying the raw output, and
\* when that call returned the reply is its text.
C7_ExecOnceThenSummarize ==
    \A t \in Turns :
        (SelectedReturned(t) /\ Selected(t).direct_output # "True") =>
            /\ loc[t].execs = <<loc[t].tool>>
            /\ loc[t].llmCalls = 2
            /\ loc[t].msgs2 = loc[t].msgs1 \o
                 << [role |-> "assistant", content |-> <<"[call", loc[t].tool, "]">>],
                    [role |-> "user",
                     content |-> <<"result-of", loc[t].tool>> \o loc[t].tool_result
                                 \o <<"please-summarize">>] >>
            /\ (pc[t] \in InReply /\ loc[t].last.outcome = "ok") =>
                   loc[t].reply.text = loc[t].last.result.content

\* C8: the token cost a turn returns and persists is the sum of the tokens
\* reported by the LLM Router calls the Dispatcher made in the turn (first +
\* second, the single call's, or 0).
C8_TokenCostIsSum ==
    [][\A t \in Turns :
         (pc[t] = "post" /\ pc'[t] = "send") =>
            /\ loc[t].reply.token_used = loc[t].reported
            /\ loc[t].llmCalls = 0 => loc[t].reply.token_used = 0
            /\ Len(chat_history') = Len(chat_history) + 1
            /\ chat_history'[Len(chat_history')].token_used = loc[t].reported]_vars

\* a turn persisted the cost of two calls that both reported tokens
W8_TwoCallsPersisted ==
    \E t \in Turns :
        /\ pc[t] = "send" /\ loc[t].llmCalls = 2
        /\ loc[t].resp.token_used > 0 /\ loc[t].summary.token_used > 0
        /\ loc[t].reply.token_used = loc[t].resp.token_used + loc[t].summary.token_used
        /\ \E i \in 1..Len(chat_history) :
             /\ chat_history[i].role = "assistant"
             /\ chat_history[i].token_used = loc[t].reply.token_used

\* C9: a model-selected capability marked direct_output whose execute
\* returned: the reply is its raw return value and the turn made exactly one
\* LLM Router call.
C9_DirectOutputIsRaw ==
    \A t \in Turns :
        (SelectedReturned(t) /\ Selected(t).direct_output = "True") =>
            /\ pc[t] \in InReply
            /\ loc[t].reply.text = loc[t].tool_result
            /\ loc[t].reply.text \in ToolOutputs
            /\ loc[t].llmCalls = 1

\* the model selected the direct-output capability and it returned
W9_DirectOutputReturned ==
    \E t \in Turns :
        /\ pc[t] = "post" /\ SelectedReturned(t) /\ loc[t].tool = "traffic"
        /\ loc[t].resp.content # loc[t].tool_result

\* C10: when the model's call names a capability that is not registered, no
\* capability is executed, no failed invocation is logged, no second LLM
\* call is made and the reply is the text of the first call.
C10_UnknownCapabilityIgnored ==
    \A t \in Turns :
        (loc[t].resp.tool_call # None /\ get_tool(loc[t].resp.tool_call) = NoTool) =>
            /\ loc[t].execs = <<>>
            /\ loc[t].logged = 0
            /\ loc[t].llmCalls = 1
            /\ pc[t] \in InReply
            /\ loc[t].reply.text = loc[t].resp.content
            /\ loc[t].reply.tool_used = None

\* the model named an unregistered capability and the turn has its reply
W10_UnknownSelected ==
    \E t \in Turns :
        /\ pc[t] = "post" /\ loc[t].resp.tool_call = "ghost_tool"
        /\ loc[t].resp.content # <<>>

\* text has the string e as one of its parts
Contains(text, e) == \E i \in 1..Len(text) : text[i] = e

\* the number of rows of tool_logs equal to row
CountLogs(row) == Cardinality({i \in 1..Len(tool_logs) : tool_logs[i] = row})

\* C11: when the execute of a model-selected known capability raises, the
\* exception is caught, the turn wrote exactly one failed invocation log (for
\* that capability, with the error), the reply carries the raw error text,
\* and the turn ends there: the capability was executed once, no other one
\* was executed and no second LLM Router call was made.
C11_SelectedRaiseEndsTurn ==
    \A t \in Turns :
        (loc[t].route = "llm" /\ loc[t].raised # None) =>
            /\ pc[t] \in InReply
            /\ loc[t].exc = None
            /\ loc[t].logged = 1
            /\ CountLogs(FailedLog(loc[t].user_id, loc[t].tool, loc[t].raised)) >= 1
            /\ Contains(loc[t].reply.text, loc[t].raised)
            /\ loc[t].execs = <<loc[t].resp.tool_call>>
            /\ loc[t].llmCalls = 1

\* a model-selected capability raised and the turn has its failure reply
W11_SelectedRaised ==
    \E t \in Turns :
        /\ pc[t] = "post" /\ loc[t].route = "llm" /\ loc[t].raised \in ToolErrors
        /\ loc[t].tool \in ToolNames /\ loc[t].llmCalls = 1

\* C12: when a command maps to a registered capability and its execute
\* raises, the reply is a failure message carrying the exception's text, the
\* turn wrote exactly one failed invocation log, the capability was executed
\* once and the Dispatcher made no LLM Router call.
C12_DirectRaiseIsReported ==
    \A t \in Turns :
        (loc[t].route = "direct" /\ loc[t].raised # None) =>
            /\ pc[t] \in InReply
            /\ loc[t].exc = None
            /\ Head(loc[t].reply.text) = "error"
            /\ Contains(loc[t].reply.text, loc[t].raised)
            /\ loc[t].logged = 1
            /\ CountLogs(FailedLog(loc[t].user_id, loc[t].tool, loc[t].raised)) >= 1
            /\ loc[t].execs = <<loc[t].tool>>
            /\ loc[t].llmCalls = 0

\* a direct command's capability raised and the turn has its failure reply
W12_DirectRaised ==
    \E t \in Turns :
        /\ pc[t] = "post" /\ loc[t].route = "direct" /\ loc[t].raised \in ToolErrors
        /\ loc[t].tool = "traffic" /\ loc[t].logged = 1

\* the command dispatch parsed for turn t, and the command and the args of
\* the message of a turn
Command(t) == loc[t].command
ParsedCommand(t) == parse_command(loc[t].text)[1]
Args(t) == parse_command(loc[t].text)[2]

\* dispatch of turn t has started
Dispatched(t) == pc[t] \notin {"idle", "dispatch", "dropped"}

\* the commands dispatch handles itself, and the owner-restricted ones
ReservedCommands == {CmdHelp, CmdModel, CmdAddUser, CmdRemoveUser, CmdListUsers}
OwnerCommands == {CmdAddUser, CmdRemoveUser, CmdListUsers}

\* the capabilities the command map holds for command c
MappedTo(c) ==
    {registry.command_map[i][2].name :
        i \in {j \in 1..Len(registry.command_map) : registry.command_map[j][1] = c}}

\* C13: when the command is not reserved and maps to a registered capability,
\* the Dispatcher executes that capability exactly once with the parsed args
\* and makes no LLM Router call, and when execute returned normally the reply
\* is its return value with token cost 0.
C13_DirectCommandRunsOnce ==
    \A t \in Turns :
        (Dispatched(t) /\ Command(t) \notin ReservedCommands /\ MappedTo(Command(t)) # {}) =>
            /\ loc[t].route = "direct"
            /\ Len(loc[t].execs) = 1 /\ loc[t].execs[1] \in MappedTo(Command(t))
            /\ loc[t].command = ParsedCommand(t)
            /\ loc[t].args = Args(t)
            /\ loc[t].llmCalls = 0
            /\ loc[t].returned =>
                  /\ pc[t] \in InReply
                  /\ loc[t].reply.text = loc[t].tool_result
                  /\ loc[t].reply.tool_used = loc[t].execs[1]
                  /\ loc[t].reply.token_used = 0

\* /traffic x was executed with args x and returned
W13_DirectReturned ==
    \E t \in Turns :
        /\ pc[t] = "post" /\ Command(t) = CmdTraffic /\ loc[t].returned
        /\ loc[t].args = <<"x">> /\ loc[t].reply.text \in ToolOutputs

\* C14: a turn whose command is reserved (/help, /model, /adduser,
\* /removeuser, /listusers) makes no LLM Router call, executes no capability
\* and returns token cost 0, whoever issues it and whatever its args; the
\* reply of /help is the help text.
C14_ReservedIsLocal ==
    \A t \in Turns :
        (Dispatched(t) /\ Command(t) \in ReservedCommands) =>
            /\ pc[t] \in InReply
            /\ loc[t].llmCalls = 0
            /\ loc[t].execs = <<>>
            /\ loc[t].reply.token_used = 0
            /\ loc[t].reply.tool_used = None
            /\ Command(t) = CmdHelp => loc[t].reply.text = get_help_text

\* /Help@b by the non-owner was answered with the help text
W14_HelpAnswered ==
    \E t \in Turns :
        /\ pc[t] = "post" /\ loc[t].text = TextHelp /\ loc[t].user_id # OwnerId
        /\ loc[t].reply.text = get_help_text

\* C15: the dispatch of an owner-restricted command (/adduser, /removeuser,
\* /listusers) issued by a user who is not the owner replies the fixed
\* permission-denied text and leaves the users table as it was.
C15_NonOwnerIsDenied ==
    [][\A t \in Turns :
         (pc[t] = "dispatch" /\ pc'[t] # "dispatch"
            /\ loc[t].user_id # OwnerId /\ ParsedCommand(t) \in OwnerCommands) =>
              /\ loc'[t].reply.text = PermissionDenied
              /\ users' = users]_vars

\* the non-owner's /adduser 3 was denied and user 3 does not exist
W15_AddUserDenied ==
    \E t \in Turns :
        /\ pc[t] = "post" /\ loc[t].text = TextAddUser /\ loc[t].user_id # OwnerId
        /\ loc[t].reply.text = PermissionDenied /\ "3" \notin DOMAIN users

\* the names get_available lists: configured_names()
ConfiguredNames == {get_available[i] : i \in 1..Len(get_available)}

\* the dispatch step of turn t handles /model X with a non-empty X
ModelStep(t) ==
    /\ pc[t] = "dispatch" /\ pc'[t] # "dispatch"
    /\ ParsedCommand(t) = CmdModel /\ Args(t) # <<>>

\* what /model with the name n has to do: set the preference to n iff n is
\* configured, otherwise answer not-available with the configured names and
\* leave the users table alone
ModelEffect(t, n) ==
    /\ n \in ConfiguredNames =>
          users' = [users EXCEPT ![loc[t].user_id].default_llm = n]
    /\ n \notin ConfiguredNames =>
          /\ users' = users
          /\ Head(loc'[t].reply.text) = "cannot-use"
          /\ SubSeq(loc'[t].reply.text, 4, Len(loc'[t].reply.text)) = get_available

\* C16 as stated: for /model X with a non-empty X, the preference is changed
\* to X iff X is in configured_names(); otherwise the reply is the
\* not-available message and the preference is unchanged.
C16_ModelSetsIffConfigured ==
    [][\A t \in Turns : ModelStep(t) => ModelEffect(t, Join(Args(t)))]_vars

\* C16 amended: for /model X with a non-empty X, with N the name X trimmed
\* and lower-cased, the preference is changed to N iff N is in
\* configured_names(); otherwise the reply is the not-available message
\* listing the configured names and the preference is unchanged.
C16_ModelSetsNormalizedName ==
    [][\A t \in Turns : ModelStep(t) => ModelEffect(t, Join(Lower(Strip(Args(t)))))]_vars

\* the owner's /model Gemini changed the owner's preference to gemini
W16_PreferenceChanged ==
    \E t \in Turns :
        /\ pc[t] = "post" /\ loc[t].text = TextModel /\ loc[t].user_id = OwnerId
        /\ loc[t].user.default_llm = "claude"
        /\ users[OwnerId].default_llm = "gemini"
        /\ loc[t].reply.text = <<"llm-changed-to", "gemini">>

\* C17: a free-form message (no command, or a command that maps to no
\* capability) whose first LLM Router result carries no capability call: the
\* reply is exactly the provider's text, the turn made exactly one LLM Router
\* call, executed no capability, and its token cost is the one reported.
C17_PlainAnswerIsProviderText ==
    \A t \in Turns :
        (loc[t].route = "llm" /\ loc[t].last.outcome = "ok"
           /\ loc[t].last.result.tool_call = None /\ loc[t].call = 1) =>
            /\ pc[t] \in InReply
            /\ Command(t) \notin ReservedCommands /\ MappedTo(Command(t)) = {}
            /\ loc[t].reply.text = loc[t].last.result.content
            /\ loc[t].reply.tool_used = None
            /\ loc[t].reply.llm_model = loc[t].last.result.model
            /\ loc[t].reply.token_used = loc[t].last.result.token_used
            /\ loc[t].llmCalls = 1
            /\ loc[t].execs = <<>>

\* /foo maps to no capability and was answered by the provider, with tokens
W17_UnknownCommandAnswered ==
    \E t \in Turns :
        /\ pc[t] = "post" /\ loc[t].text = TextUnknownCmd /\ loc[t].route = "llm"
        /\ loc[t].last.outcome = "ok" /\ loc[t].resp.tool_call = None
        /\ loc[t].reply.token_used = MaxTok /\ loc[t].reply.text # <<>>

\* the row of table schedules the job of the activation was loaded from
RunSchedules ==
    {i \in 1..Len(schedules) : CustomId(schedules[i].id) = run.job.id}

\* C18: after a run of a job loaded from a row of schedules that completed
\* successfully (execute returned and the result was handed over), that
\* row's last_run_at is set.
C18_LastRunRecorded ==
    (run.pc = "done" /\ RunSchedules # {} /\ run.result # <<>>
       /\ run.raised = None /\ run.exc = None) =>
        \A i \in RunSchedules : schedules[i].last_run_at # None

\* C19: when the capability of a scheduled job raises, the run catches it,
\* has written one failed invocation log for the user the job is bound to,
\* sends the failure notification to that user's chat, and ends without an
\* exception leaving it, whatever happens to the notification.
C19_JobFailureIsContained ==
    /\ run.pc # "crashed" /\ run.escaped = None
    /\ run.raised # None =>
          /\ run.pc \in {"send_failure", "done"}
          /\ run.logged = 1
          /\ CountLogs(FailedLog(run.job.user_id, run.job.tool_name, run.raised)) >= 1
          /\ run.pc = "done" =>
                /\ run.notice \in SendOutcomes
                /\ run.notice = "delivered" =>
                      /\ outbox # <<>>
                      /\ outbox[Len(outbox)] =
                            [chat_id |-> run.job.chat_id,
                             text |-> FailureText(run.job.tool_name, run.raised)]

\* a job's capability raised, the notification raised too, and the run ended
W19_NotificationFailedToo ==
    /\ run.pc = "done" /\ run.raised \in ToolErrors /\ run.notice = "raised"
    /\ run.logged = 1 /\ run.job.user_id \in UserIds

\* C20: start-up does not fail, it meets every active row, and when it is
\* over every row with a valid cron expression and an active user has its
\* job, whatever the cron expressions of the other rows, and no row with
\* a malformed one has a job.
C20_ValidEntriesScheduled ==
    /\ boot.state # "failed"
    /\ boot.state = "started" =>
          /\ Len(boot.found) = Len(boot.rows)
          /\ \A i \in 1..Len(boot.rows) :
                LET r == boot.rows[i] IN
                /\ (from_crontab_ok(r.cron_expr) /\ boot.found[i]) =>
                      Job(CustomId(r.id), "_run_tool_for_user", r.user_id, r.user_id,
                          r.tool_name, r.args) \in jobs
                /\ ~from_crontab_ok(r.cron_expr) =>
                      \A j \in jobs : j.id # CustomId(r.id)

\* a malformed row came first and the valid row after it has its job
W20_ValidAfterMalformed ==
    /\ boot.state = "started" /\ Len(boot.rows) = 2
    /\ boot.rows[1].cron_expr = CronBad /\ boot.found[1]
    /\ boot.rows[2].cron_expr = CronOk /\ boot.found[2]
    /\ \E j \in jobs : j.id = CustomId(boot.rows[2].id)

\* the user of a schedules row has an active row in users
UserActive(user_id) == user_id \in DOMAIN users /\ users[user_id].is_active

\* C21: start-up does not fail; when it is over, no row whose user is
\* deactivated or missing has a job, while the built-in jobs are there and so
\* is the job of every row with an active user and a valid cron expression.
C21_InactiveUserNotScheduled ==
    /\ boot.state # "failed"
    /\ boot.state = "started" =>
          /\ DefaultJobs \subseteq jobs
          /\ \A i \in 1..Len(schedules) :
                LET r == schedules[i] IN
                /\ ~UserActive(r.user_id) => \A j \in jobs : j.id # CustomId(r.id)
                /\ (r.is_active /\ UserActive(r.user_id) /\ from_crontab_ok(r.cron_expr)) =>
                      \E j \in jobs : j.id = CustomId(r.id) /\ j.user_id = r.user_id

\* a row of a deactivated user came first, then one of an active user, which
\* has its job
W21_DeactivatedThenActive ==
    /\ boot.state = "started" /\ Len(schedules) = 2
    /\ schedules[1].is_active /\ schedules[1].user_id = "2" /\ ~users["2"].is_active
    /\ schedules[2].user_id = OwnerId /\ schedules[2].cron_expr = CronOk
    /\ \E j \in jobs : j.id = CustomId(schedules[2].id)
    /\ \A j \in jobs : j.id # CustomId(schedules[1].id)

\* the names ToolRegistry.tools holds
RegisteredNames == {toolReg.tools[i].name : i \in 1..Len(toolReg.tools)}

\* C22: every command declared by a capability that get_tool returns is
\* mapped by get_by_command to that same capability.
C22_CommandFindsItsTool ==
    \A n \in RegisteredNames :
        LET tool == ToolRegistry_get_tool(toolReg, n) IN
        \A k \in 1..Len(tool.commands) :
            ToolRegistry_get_by_command(toolReg, tool.commands[k]) = tool

RowsOf(user_id) == {i \in 1..Len(chat_history) : chat_history[i].user_id = user_id}

\* C24: get_context(user) has min(MAX_CONTEXT_MESSAGES, rows of the user)
\* elements; its k-th element from the end is the role and the content, and
\* nothing else, of the user's k-th row from the end.
C24_ContextIsRecentWindow ==
    \A u \in UserIds :
        LET ctx == get_context(u)
            total == Cardinality(RowsOf(u))
        IN /\ Len(ctx) = IF total < MAX_CONTEXT_MESSAGES THEN total
                          ELSE MAX_CONTEXT_MESSAGES
           /\ \A k \in 1..Len(ctx) :
                 \E i \in RowsOf(u) :
                    /\ Cardinality({j \in RowsOf(u) : j > i}) = Len(ctx) - k
                    /\ ctx[k] = [role |-> chat_history[i].role,
                                 content |-> chat_history[i].content]

\* the owner has more rows than the window holds, with a row of user 2 in
\* between; the owner's oldest row has left the window
W24_WindowSlid ==
    /\ Cardinality(RowsOf(OwnerId)) = MAX_CONTEXT_MESSAGES + 1
    /\ \E i \in RowsOf("2") : i > 1 /\ i < Len(chat_history)
    /\ \E i \in RowsOf(OwnerId) : chat_history[i].role = "assistant"
    /\ Len(get_context(OwnerId)) = MAX_CONTEXT_MESSAGES
    /\ get_context(OwnerId)[1].content # chat_history[1].content
    /\ chat_history[1].user_id = OwnerId

\* the providers that are registered and configured
Usable == {provReg[i] : i \in 1..Len(provReg)} \cap configured

\* C25: with no provider auth-failed, get_fallback(preferred) is preferred
\* when that is registered and configured, else the configured provider
\* registered first, else none.
C25_ResolveOrder ==
    (answer.asked /\ authFailed = {}) =>
        IF answer.preferred \in Usable THEN answer.got = answer.preferred
        ELSE IF Usable = {} THEN answer.got = None
        ELSE /\ answer.got \in Usable
             /\ \A i \in 1..Len(provReg) : \A j \in 1..Len(provReg) :
                   (provReg[i] = answer.got /\ j < i) => provReg[j] \notin configured

\* the preferred provider is registered without credentials, and so is the
\* one registered first: the answer is a later one
W25_FellBackPastFirst ==
    /\ answer.asked /\ Len(provReg) = 3
    /\ answer.preferred = provReg[1] /\ provReg[1] \notin configured
    /\ answer.got = provReg[2] /\ provReg[2] # "claude"

\* the preferred provider is usable and is not the first one registered
W25_PreferredKept ==
    /\ answer.asked /\ Len(provReg) = 3
    /\ provReg[1] \in configured
    /\ answer.preferred = provReg[3] /\ answer.got = provReg[3]

\* the text without the whitespace around it
Trimmed == Strip(input)

\* the text is a command: it begins with "/" once trimmed
IsCommandText == Len(Trimmed) > 0 /\ Trimmed[1] = "/"

\* what is expected of a command text t (trimmed): the token ends before e,
\* its '@suffix' starts at a, the remainder's first character is at b
CommandSplit(t, command, args) ==
    \E e \in 1..(Len(t) + 1) : \E a \in 1..e : \E b \in e..(Len(t) + 1) :
        /\ e = Len(t) + 1 \/ t[e] \in WS
        /\ \A j \in 1..(e - 1) : t[j] \notin WS
        /\ a = e \/ t[a] = "@"
        /\ \A j \in 1..(a - 1) : t[j] # "@"
        /\ b = Len(t) + 1 \/ t[b] \notin WS
        /\ \A j \in e..(b - 1) : t[j] \in WS
        /\ command = [i \in 1..(a - 1) |-> LowerChar(t[i])]
        /\ command # <<>>
        /\ args = [i \in 1..(Len(t) + 1 - b) |-> t[b + i - 1]]

W26_PlainTextTrimmed ==
    /\ output.called
    /\ input = <<" ", "a", " ", "B">>
    /\ output.command = <<>> /\ output.args = <<"a", " ", "B">>

\* turn t takes up a message whose sender has no active row in users
DeactivatedSender(t) ==
    /\ pc[t] = "idle" /\ pc'[t] # "idle"
    /\ ~users[loc'[t].user_id].is_active

\* C27: a message of a deactivated user starts no turn, whatever the
\* transport: the update is dropped with no row written to chat_history or
\* tool_logs, no LLM call and no execute, and a dropped update stays so.
C27_DeactivatedIsDropped ==
    [][\A t \in Turns :
          /\ DeactivatedSender(t) =>
                /\ pc'[t] = "dropped"
                /\ chat_history' = chat_history /\ tool_logs' = tool_logs
                /\ loc'[t].llmCalls = 0 /\ loc'[t].execs = <<>>
          /\ pc[t] = "dropped" =>
                /\ pc'[t] = "dropped"
                /\ loc'[t].llmCalls = 0 /\ loc'[t].execs = <<>>]_vars

\* under the webhook the owner removed user 2, whose next message was dropped
W27_DroppedUnderWebhook ==
    /\ mode = "webhook"
    /\ pc[2] = "dropped" /\ loc[2].user_id = "2" /\ ~users["2"].is_active
    /\ loc[1].user_id = OwnerId /\ loc[1].command = CmdRemoveUser
    /\ Len(chat_history) = 1

\* the same under polling
W27_DroppedUnderPolling ==
    /\ mode = "polling"
    /\ pc[2] = "dropped" /\ loc[2].user_id = "2" /\ ~users["2"].is_active

\* process_message has left the with block of turn t
LeftTypingSection(t) == pc[t] \in {"send", "raised", "done"}

\* C28: once process_message has left the section the indicator encloses, by
\* a reply or by an exception, the stop signal is set; the thread sends at
\* most the update of the iteration it was in, and it only ends stopped.
C28_TypingStopsOnExit ==
    \A t \in Turns :
        /\ LeftTypingSection(t) => StopIsSet(t)
        /\ typer[t].late <= 1
        /\ typer[t].at = "ended" => StopIsSet(t)

\* a Memory write raised, the thread sent the update it was about to send
\* and then ended
W28_EndedAfterException ==
    /\ pc[1] = "raised" /\ loc[1].exc = ErrDb /\ loc[1].reply # NoReply
    /\ typer[1].at = "ended" /\ typer[1].late = 1

\* the same after a failure reply
W28_EndedAfterFailureReply ==
    /\ pc[1] = "done" /\ typer[1].at = "ended" /\ \E i \in 1..Len(chat_history) :
          chat_history[i].role = "assistant" /\ chat_history[i].content[1] = "llm-processing-failed"

\* the new user turn of t as dispatch appends it to the context
NewUserTurn(t) == [role |-> "user", content |-> loc[t].text]

\* C29: the messages of the first LLM Router call of a free-form turn end
\* with the new user turn, and when the user's transcript holds that text
\* once the messages hold it once.
C29_NewTurnOnce ==
    \A t \in Turns :
        (loc[t].route = "llm" /\ loc[t].llmCalls >= 1
           /\ Cardinality({i \in RowsOf(loc[t].user_id) :
                             chat_history[i].role = "user"
                             /\ chat_history[i].content = loc[t].text}) = 1) =>
            LET m == loc[t].msgs1 IN
            /\ Len(m) >= 1 /\ m[Len(m)] = NewUserTurn(t)
            /\ Cardinality({i \in 1..Len(m) : m[i] = NewUserTurn(t)}) = 1

\* the provider errors that are not authentication-class
NonAuthErrors == {"invalid request"}

\* the chat of the provider resolved for turn t raises a non-authentication
\* error in this step
NonAuthFailure(t) ==
    /\ pc[t] = "chat_wait" /\ loc[t].last.perr = None
    /\ loc'[t].last.perr \in NonAuthErrors

\* C30: when the resolved provider's chat raises a non-authentication error,
\* llm_router.chat raises that error to dispatch: the resolved provider is
\* the only one invoked, once, and no provider is marked auth-failed.
C30_NonAuthPropagates ==
    [][\A t \in Turns :
          NonAuthFailure(t) =>
              /\ authFailed' = authFailed
              /\ loc'[t].last.attempts = <<loc[t].p>>
              /\ loc'[t].last.outcome = "raise"
              /\ loc'[t].last.err = loc'[t].last.perr
              /\ loc'[t].llmCalls = loc[t].llmCalls
              /\ pc'[t] = "post"]_vars

\* the first call of a turn failed with a non-authentication error while
\* another provider was configured and not auth-failed
W30_NotRetriedElsewhere ==
    \E t \in Turns :
        /\ pc[t] = "post" /\ loc[t].call = 1
        /\ loc[t].last.perr \in NonAuthErrors /\ loc[t].last.attempts = <<loc[t].p>>
        /\ \E n \in configured : n # loc[t].p /\ n \notin authFailed

\* C31: whatever the interleaving of the LLM Router calls, no step clears
\* a provider's auth-failed flag: once set it stays set.
C31_AuthFailedMonotone == [][authFailed \subseteq authFailed']_vars

\* two overlapping turns resolved the same provider, both calls failed
\* authentication and the provider is marked
W31_TwoConcurrentAuthFailures ==
    /\ mode = "webhook"
    /\ pc[1] = "post" /\ pc[2] = "post"
    /\ loc[1].p = loc[2].p /\ loc[1].p \in authFailed
    /\ loc[1].last.authFail /\ loc[2].last.authFail
    /\ loc[1].call = 1 /\ loc[2].call = 1
    /\ \A i \in 1..Len(chat_history) : chat_history[i].role = "user"

\* C32: a turn executes at most one capability and makes at most two LLM
\* Router calls; when it made two, the first call had selected a registered
\* capability and the execute of that capability had returned.
C32_OneCapabilityTwoCalls ==
    \A t \in Turns :
        /\ Len(loc[t].execs) <= 1
        /\ loc[t].llmCalls <= 2
        /\ loc[t].llmCalls = 2 =>
              /\ loc[t].route = "llm"
              /\ loc[t].resp.tool_call = loc[t].tool
              /\ get_tool(loc[t].tool) # NoTool
              /\ loc[t].execs = <<loc[t].tool>>
              /\ loc[t].returned

\* a turn made its second call after the selected capability returned, and
\* that call has returned too
W32_SummarizedOnce ==
    \E t \in Turns :
        /\ pc[t] = "post" /\ loc[t].llmCalls = 2 /\ loc[t].execs = <<"notes">>
        /\ loc[t].last.outcome = "ok" /\ loc[t].reply.text = loc[t].summary.content

\* the rows of chat_history of one user, in the order written
Transcript(user_id) == SelectSeq(chat_history, LAMBDA r : r.user_id = user_id)

\* C33: no turn of a user writes to Memory before the turn of that user's
\* earlier message has persisted its assistant reply: in a user's transcript
\* every user row but the last is followed by an assistant row.
C33_TurnsOfAUserInOrder ==
    \A u \in UserIds :
        \A i \in 1..(Len(Transcript(u)) - 1) :
            Transcript(u)[i].role = "user" => Transcript(u)[i + 1].role = "assistant"

\* C34: a turn logs a failed invocation only if a capability's execute
\* raised in it; when the selected capability returned and the summarizing
\* call then failed, nothing is logged as failed and the reply is the
\* LLM-processing failure message.
C34_FailedLogOnlyForExecute ==
    \A t \in Turns :
        /\ loc[t].logged > 0 => loc[t].raised # None
        /\ (pc[t] \in InReply /\ loc[t].call = 2 /\ loc[t].returned
              /\ loc[t].last.outcome = "raise") =>
                /\ loc[t].logged = 0
                /\ loc[t].reply.text = <<"llm-processing-failed", loc[t].last.err>>

\* C35: once the owner's /adduser X has produced the 'user added' reply, X
\* is a user the transports route to the Dispatcher (get_user_by_chat_id
\* finds an active row), also when X had been deactivated by /removeuser.
C35_AddedUserIsActive ==
    \A t \in Turns :
        (pc[t] \in InReply /\ loc[t].route = "reserved"
           /\ loc[t].reply.text[1] = "user-added") =>
                get_user_by_chat_id(loc[t].reply.text[3]) # NoUser

\* C36: at every moment some user with the role owner is active; in
\* particular /removeuser with the owner's own chat id leaves the owner
\* active.
C36_ActiveOwnerRemains ==
    \E u \in DOMAIN users : users[u].role = "owner" /\ users[u].is_active

\* C37: when a job fires and goes on to execute its capability, the user
\* it runs for is active at that moment, also when that user was
\* deactivated after init_scheduler loaded the job.
C37_JobOnlyForActiveUser ==
    [][(fired' = fired + 1 /\ run'.pc = "exec") => UserActive(run'.job.user_id)]_vars

\* C38: of the get_oauth_state calls on a saved state at most one returns
\* the record, and no call made once the state has expired returns it.
C38_OauthStateSingleUse ==
    /\ \A i, j \in 1..Len(handed) : handed[i].state = handed[j].state => i = j
    /\ \A i \in 1..Len(handed) : handed[i].at < issued[handed[i].state]

\* the turn t takes the step, and the user whose message the turn handles
TurnStep(t) == pc'[t] # pc[t] \/ loc'[t] # loc[t]
TurnUser(t) == IF pc[t] = "idle" THEN loc'[t].user_id ELSE loc[t].user_id

\* a job activation takes the step, and the user the job runs for
JobStep == run' # run
JobUser == run'.job.user_id

\* every element of get_context(u) is the role and content of a row of u
ContextOwnRows ==
    \A u \in UserIds :
        LET ctx == get_context(u)
            own == {[role |-> chat_history[i].role, content |-> chat_history[i].content] :
                        i \in RowsOf(u)}
        IN \A k \in 1..Len(ctx) : ctx[k] \in own

\* C39: get_context(u) holds only rows recorded with user id u, and a step
\* of a dispatch turn (the recording of its two rows included) or of a
\* scheduled job that runs for another user leaves get_context(u) as it was.
C39_MemoryIsolatedPerUser ==
    /\ []ContextOwnRows
    /\ [][\A u \in UserIds :
            (\/ \E t \in Turns : TurnStep(t) /\ TurnUser(t) # u
             \/ JobStep /\ JobUser # u)
                => get_context(u)' = get_context(u)]_vars

\* under the webhook two turns of different users overlap and a row of user
\* 2 lies between two rows of the owner
W39_RowsInterleaved ==
    /\ mode = "webhook"
    /\ \E i, j, k \in 1..Len(chat_history) :
          /\ i < j /\ j < k
          /\ chat_history[i].user_id = OwnerId /\ chat_history[k].user_id = OwnerId
          /\ chat_history[j].user_id = "2"
          /\ chat_history[k].role = "assistant"
    /\ get_context("2") # <<>>
    /\ Len(get_context(OwnerId)) = 2

====
